---- MODULE Spec2Model ----
(***************************************************************************)
(* Model of the voxel tool chain of idle_factory:                          *)
(*   tools/voxel_generator.py  VoxelModel (grid, construction primitives,  *)
(*                             .vox writer)                                *)
(*   tools/vox_to_gltf.py      read_vox (.vox reader), the naive and the   *)
(*                             greedy mesher                               *)
(* Bytes are integers 0..255, a file is a sequence of bytes, a Python dict *)
(* is a sequence of <<key, value>> pairs in insertion order.               *)
(***************************************************************************)
EXTENDS Integers, Sequences, FiniteSets, TLC

VARIABLES
    size_x, size_y, size_z,  \* VoxelModel.size_x/y/z
    voxels,                  \* VoxelModel.voxels (insertion-ordered dict)
    nops,                    \* number of primitive calls made on the model
    last,                    \* the last call made on the model, with its arguments
    prev,                    \* VoxelModel.voxels before the last call
    file,                    \* the bytes of the .vox file on disk
    pc,                      \* read_vox: position in the function
    pos,                     \* read_vox: f.tell()
    end_pos,                 \* read_vox: end_pos
    vox,                     \* read_vox: locals size_x, size_y, size_z, voxels, palette
    nchunks,                 \* read_vox: iterations of the child-chunk loop so far
    chunk_pos,               \* read_vox: f.tell() at the top of the last iteration
    ret,                     \* read_vox: how the call ended
    naive,                   \* << the mesh _generate_naive_mesh returned >>, << >> before
    greedy,                  \* << the mesh _generate_greedy_mesh returned >>, << >> before
    passes,                  \* the direction passes of the greedy mesher run side by side
    shared,                  \* the lists vertices, faces, face_colors, materials they append to
    closest,                 \* what _find_closest_palette_index returned, 0 before the call
    line,                    \* draw_line: the locals of the call in progress
    ctl                      \* IterationController: its fields and the driver's position

vars == <<size_x, size_y, size_z, voxels, nops, last, prev,
          file, pc, pos, end_pos, vox, nchunks, chunk_pos, ret, naive, greedy,
          passes, shared, closest, line, ctl>>

gridVars == <<size_x, size_y, size_z, voxels, nops, last, prev>>
readVars == <<pc, pos, end_pos, vox, nchunks, chunk_pos, ret>>
meshVars == <<naive, greedy>>
passVars == <<passes, shared>>
auxVars == <<closest, line, ctl>>

(***************************************************************************)
(* Bounds of the model.                                                    *)
(***************************************************************************)
\* primitive calls made on one VoxelModel before it is saved
MaxOps == 2

\* chunks of unknown tags inserted among the children of MAIN of one file
MaxInserted == 2

(***************************************************************************)
(* Bytes and struct.pack / struct.unpack.                                  *)
(***************************************************************************)
Byte == 0..255

\* struct.pack('<I', n)
PackU32(n) ==
    << n % 256, (n \div 256) % 256, (n \div 65536) % 256, (n \div 16777216) % 256 >>

\* struct.unpack('<I', b)[0] for a 4-byte b
UnpackU32(b) == b[1] + 256 * b[2] + 65536 * b[3] + 16777216 * b[4]

\* f.read(n) at offset p of data: at most n bytes, fewer at the end of the file
Read(data, p, n) ==
    IF p >= Len(data) \/ n <= 0 THEN << >>
    ELSE SubSeq(data, p + 1, IF p + n > Len(data) THEN Len(data) ELSE p + n)

\* f.tell() after f.read(n) at offset p
Tell(data, p, n) ==
    IF n <= 0 THEN p
    ELSE IF p >= Len(data) THEN p
    ELSE IF p + n > Len(data) THEN Len(data) ELSE p + n

\* chunk and file tags as ASCII bytes
TagVOX  == << 86, 79, 88, 32 >>   \* b'VOX '
TagMAIN == << 77, 65, 73, 78 >>   \* b'MAIN'
TagSIZE == << 83, 73, 90, 69 >>   \* b'SIZE'
TagXYZI == << 88, 89, 90, 73 >>   \* b'XYZI'
TagRGBA == << 82, 71, 66, 65 >>   \* b'RGBA'

(***************************************************************************)
(* PALETTE and PALETTE_INDEX.                                              *)
(***************************************************************************)
PALETTE ==
    << << "iron",         << 115, 115, 120, 255 >> >>,
       << "copper",       << 184, 115,  51, 255 >> >>,
       << "brass",        << 201, 163,  38, 255 >> >>,
       << "dark_steel",   <<  46,  46,  51, 255 >> >>,
       << "wood",         << 140, 105,  20, 255 >> >>,
       << "stone",        << 105, 105, 105, 255 >> >>,
       << "frame",        << 102, 102, 102, 255 >> >>,
       << "belt",         <<  68,  68,  68, 255 >> >>,
       << "roller",       <<  34,  34,  34, 255 >> >>,
       << "arrow",        << 255, 255,   0, 255 >> >>,
       << "furnace_body", << 139,  90,  43, 255 >> >>,
       << "furnace_glow", << 255, 100,  30, 255 >> >>,
       << "crusher_body", << 102,  77, 128, 255 >> >>,
       << "miner_body",   << 204, 153,  51, 255 >> >>,
       << "danger",       << 204,  51,  51, 255 >> >>,
       << "warning",      << 204, 170,  51, 255 >> >>,
       << "power",        <<  51, 102, 204, 255 >> >>,
       << "active",       <<  51, 204, 102, 255 >> >> >>

PaletteNames == { PALETTE[i][1] : i \in 1..Len(PALETTE) }

\* PALETTE_INDEX[name]: position in PALETTE, counted from 1
PALETTE_INDEX(name) == CHOOSE i \in 1..Len(PALETTE) : PALETTE[i][1] = name

(***************************************************************************)
(* Python dict, in insertion order.                                        *)
(***************************************************************************)
DictKeys(d) == { d[i][1] : i \in 1..Len(d) }

DictHas(d, k) == \E i \in 1..Len(d) : d[i][1] = k

DictGet(d, k) == d[CHOOSE i \in 1..Len(d) : d[i][1] = k][2]

\* d[k] = v: an existing key keeps its place, a new key goes last
DictSet(d, k, v) ==
    IF DictHas(d, k)
    THEN [i \in 1..Len(d) |-> IF d[i][1] = k THEN << k, v >> ELSE d[i]]
    ELSE Append(d, << k, v >>)

\* d.pop(k, None)
DictPop(d, k) == SelectSeq(d, LAMBDA e : e[1] # k)

\* the dict as a set of key->value pairs
DictPairs(d) == { d[i] : i \in 1..Len(d) }

(***************************************************************************)
(* VoxelModel: constructor and construction primitives.                    *)
(***************************************************************************)
Min(a, b) == IF a < b THEN a ELSE b
Max(a, b) == IF a > b THEN a ELSE b
Abs(a) == IF a < 0 THEN -a ELSE a

\* list(range(a, b))
Range(a, b) == IF b > a THEN [i \in 1..(b - a) |-> a + i - 1] ELSE << >>

\* VoxelModel.__init__: min(max(size, 1), 256)
ClampSize(n) == Min(Max(n, 1), 256)

\* set_voxel with the upper bound of each axis off by one
set_voxel_off_by_one(d, x, y, z, color_index) ==
    IF 0 <= x /\ x <= size_x /\ 0 <= y /\ y <= size_y /\ 0 <= z /\ z <= size_z
    THEN IF 1 <= color_index /\ color_index <= 255
         THEN DictSet(d, << x, y, z >>, color_index)
         ELSE d
    ELSE d

\* set_voxel accepting the index 0
set_voxel_index_zero(d, x, y, z, color_index) ==
    IF 0 <= x /\ x < size_x /\ 0 <= y /\ y < size_y /\ 0 <= z /\ z < size_z
    THEN IF 0 <= color_index /\ color_index <= 255
         THEN DictSet(d, << x, y, z >>, color_index)
         ELSE d
    ELSE d

\* VoxelModel.set_voxel on the dict d of the model
set_voxel(d, x, y, z, color_index) ==
    IF 0 <= x /\ x < size_x /\ 0 <= y /\ y < size_y /\ 0 <= z /\ z < size_z
    THEN IF 1 <= color_index /\ color_index <= 255
         THEN DictSet(d, << x, y, z >>, color_index)
         ELSE d
    ELSE d

\* VoxelModel.set_voxel_named
set_voxel_named(d, x, y, z, material) ==
    IF material \in PaletteNames
    THEN set_voxel(d, x, y, z, PALETTE_INDEX(material))
    ELSE d

\* VoxelModel.remove_voxel
remove_voxel(d, x, y, z) == DictPop(d, << x, y, z >>)

\* set_voxel called for each cell of a sequence, in order, with one index
RECURSIVE SetCells(_, _, _, _)
SetCells(d, cells, i, color_index) ==
    IF i > Len(cells) THEN d
    ELSE SetCells(set_voxel(d, cells[i][1], cells[i][2], cells[i][3], color_index),
                  cells, i + 1, color_index)

\* the loop of _find_closest_palette_index with "dist <= min_dist": of several
\* nearest entries the last one wins
RECURSIVE ClosestLoop_last_tie(_, _, _)
ClosestLoop_last_tie(rgba, i, st) ==
    IF i > Len(PALETTE) THEN st[2]
    ELSE LET color == PALETTE[i][2]
             dist == (rgba[1] - color[1]) * (rgba[1] - color[1])
                   + (rgba[2] - color[2]) * (rgba[2] - color[2])
                   + (rgba[3] - color[3]) * (rgba[3] - color[3])
         IN  IF st[1] = -1 \/ dist <= st[1]
             THEN ClosestLoop_last_tie(rgba, i + 1, << dist, PALETTE_INDEX(PALETTE[i][1]) >>)
             ELSE ClosestLoop_last_tie(rgba, i + 1, st)

\* VoxelModel._find_closest_palette_index: the loop over PALETTE.items(),
\* st = <<min_dist, closest_index>>, min_dist = -1 standing for float('inf')
RECURSIVE ClosestLoop(_, _, _)
ClosestLoop(rgba, i, st) ==
    IF i > Len(PALETTE) THEN st[2]
    ELSE LET color == PALETTE[i][2]
             dist == (rgba[1] - color[1]) * (rgba[1] - color[1])
                   + (rgba[2] - color[2]) * (rgba[2] - color[2])
                   + (rgba[3] - color[3]) * (rgba[3] - color[3])
         IN  IF st[1] = -1 \/ dist < st[1]
             THEN ClosestLoop(rgba, i + 1, << dist, PALETTE_INDEX(PALETTE[i][1]) >>)
             ELSE ClosestLoop(rgba, i + 1, st)

_find_closest_palette_index(rgba) == ClosestLoop(rgba, 1, << -1, 1 >>)

\* VoxelModel._resolve_color; a colour argument is <<"int", n>>, <<"str", s>>,
\* <<"tuple", rgba>> or, for any other Python value, <<"other">>
_resolve_color(color) ==
    IF color[1] = "int" THEN Max(1, Min(255, color[2]))
    ELSE IF color[1] = "str"
         THEN IF color[2] \in PaletteNames THEN PALETTE_INDEX(color[2]) ELSE 1
    ELSE IF color[1] = "tuple" THEN _find_closest_palette_index(color[2])
    ELSE 1

\* the cells the three nested range loops of fill_box visit, in loop order
BoxCells(x1, y1, z1, x2, y2, z2) ==
    LET xs == Range(Min(x1, x2), Max(x1, x2) + 1)
        ys == Range(Min(y1, y2), Max(y1, y2) + 1)
        zs == Range(Min(z1, z2), Max(z1, z2) + 1)
        ny == Len(ys)
        nz == Len(zs)
    IN  [i \in 1..(Len(xs) * ny * nz) |->
            << xs[((i - 1) \div (ny * nz)) + 1],
               ys[(((i - 1) \div nz) % ny) + 1],
               zs[((i - 1) % nz) + 1] >>]

\* VoxelModel.fill_box
fill_box(d, x1, y1, z1, x2, y2, z2, color) ==
    SetCells(d, BoxCells(x1, y1, z1, x2, y2, z2), 1, _resolve_color(color))

\* the test of fill_box_hollow on one cell
HollowTest(x, y, z, x1, y1, z1, x2, y2, z2, thickness) ==
    \/ x - x1 < thickness \/ x2 - x < thickness
    \/ y - y1 < thickness \/ y2 - y < thickness
    \/ z - z1 < thickness \/ z2 - z < thickness

\* VoxelModel.fill_box_hollow
fill_box_hollow(d, x1, y1, z1, x2, y2, z2, color, thickness) ==
    SetCells(d,
             SelectSeq(BoxCells(x1, y1, z1, x2, y2, z2),
                       LAMBDA c : HollowTest(c[1], c[2], c[3],
                                             x1, y1, z1, x2, y2, z2, thickness)),
             1, _resolve_color(color))

\* the cells fill_cylinder visits, in loop order
CylinderCells(cx, cy, z1, z2, radius) ==
    LET r2 == radius * radius
        xs == Range(cx - radius, cx + radius + 1)
        ys == Range(cy - radius, cy + radius + 1)
        zs == Range(Min(z1, z2), Max(z1, z2) + 1)
        ny == Len(ys)
        nz == Len(zs)
        all == [i \in 1..(Len(xs) * ny * nz) |->
                   << xs[((i - 1) \div (ny * nz)) + 1],
                      ys[(((i - 1) \div nz) % ny) + 1],
                      zs[((i - 1) % nz) + 1] >>]
    IN  SelectSeq(all, LAMBDA c : (c[1] - cx) * (c[1] - cx)
                                + (c[2] - cy) * (c[2] - cy) <= r2)

\* VoxelModel.fill_cylinder
fill_cylinder(d, cx, cy, z1, z2, radius, color) ==
    SetCells(d, CylinderCells(cx, cy, z1, z2, radius), 1, _resolve_color(color))

\* the loop of one branch of draw_line along its dominant axis: p = <<a, b, c>>
\* is the running point with a the dominant coordinate, e = <<err_b, err_c>>,
\* dd = <<da, db, dc>>, ss = <<sa, sb, sc>>; returns the points passed to
\* set_voxel by the loop, in order
RECURSIVE LineLoop(_, _, _, _, _, _)
LineLoop(p, a2, e, dd, ss, acc) ==
    IF p[1] = a2 THEN acc
    ELSE LET b1 == IF e[1] > 0 THEN p[2] + ss[2] ELSE p[2]
             eb == IF e[1] > 0 THEN e[1] - 2 * dd[1] ELSE e[1]
             c1 == IF e[2] > 0 THEN p[3] + ss[3] ELSE p[3]
             ec == IF e[2] > 0 THEN e[2] - 2 * dd[1] ELSE e[2]
         IN  LineLoop(<< p[1] + ss[1], b1, c1 >>, a2,
                      << eb + 2 * dd[2], ec + 2 * dd[3] >>, dd, ss, Append(acc, p))

\* the points draw_line passes to set_voxel, in order
LineCells(x1, y1, z1, x2, y2, z2) ==
    LET dx == Abs(x2 - x1)
        dy == Abs(y2 - y1)
        dz == Abs(z2 - z1)
        sx == IF x1 < x2 THEN 1 ELSE -1
        sy == IF y1 < y2 THEN 1 ELSE -1
        sz == IF z1 < z2 THEN 1 ELSE -1
        body ==
            IF dx >= dy /\ dx >= dz
            THEN LineLoop(<< x1, y1, z1 >>, x2, << 2 * dy - dx, 2 * dz - dx >>,
                          << dx, dy, dz >>, << sx, sy, sz >>, << >>)
            ELSE IF dy >= dx /\ dy >= dz
            THEN LET r == LineLoop(<< y1, x1, z1 >>, y2, << 2 * dx - dy, 2 * dz - dy >>,
                                   << dy, dx, dz >>, << sy, sx, sz >>, << >>)
                 IN  [i \in 1..Len(r) |-> << r[i][2], r[i][1], r[i][3] >>]
            ELSE LET r == LineLoop(<< z1, x1, y1 >>, z2, << 2 * dx - dz, 2 * dy - dz >>,
                                   << dz, dx, dy >>, << sz, sx, sy >>, << >>)
                 IN  [i \in 1..Len(r) |-> << r[i][2], r[i][3], r[i][1] >>]
    IN  Append(body, << x2, y2, z2 >>)

\* VoxelModel.draw_line
draw_line(d, x1, y1, z1, x2, y2, z2, color) ==
    SetCells(d, LineCells(x1, y1, z1, x2, y2, z2), 1, _resolve_color(color))

\* draw_arrow: length and width of the arrow
ArrowLength == 4
ArrowWidth == 2

\* the points draw_arrow passes to set_voxel, in order: the shaft, then the head
ArrowCells(x, y, z, direction) ==
    LET shaft(f(_)) == [i \in 1..ArrowLength |-> f(i - 1)]
        head(l(_), r(_)) ==
            [j \in 1..(2 * ArrowWidth) |->
                IF j % 2 = 1 THEN l((j + 1) \div 2) ELSE r(j \div 2)]
    IN  IF direction = "+y"
        THEN shaft(LAMBDA i : << x, y - i, z >>)
             \o head(LAMBDA i : << x - i, y - i, z >>, LAMBDA i : << x + i, y - i, z >>)
        ELSE IF direction = "-y"
        THEN shaft(LAMBDA i : << x, y + i, z >>)
             \o head(LAMBDA i : << x - i, y + i, z >>, LAMBDA i : << x + i, y + i, z >>)
        ELSE IF direction = "+x"
        THEN shaft(LAMBDA i : << x - i, y, z >>)
             \o head(LAMBDA i : << x - i, y - i, z >>, LAMBDA i : << x - i, y + i, z >>)
        ELSE IF direction = "-x"
        THEN shaft(LAMBDA i : << x + i, y, z >>)
             \o head(LAMBDA i : << x + i, y - i, z >>, LAMBDA i : << x + i, y + i, z >>)
        ELSE IF direction = "+z"
        THEN shaft(LAMBDA i : << x, y, z - i >>)
             \o head(LAMBDA i : << x - i, y, z - i >>, LAMBDA i : << x + i, y, z - i >>)
        ELSE IF direction = "-z"
        THEN shaft(LAMBDA i : << x, y, z + i >>)
             \o head(LAMBDA i : << x - i, y, z + i >>, LAMBDA i : << x + i, y, z + i >>)
        ELSE << >>

\* VoxelModel.draw_arrow
draw_arrow(d, x, y, z, direction, color) ==
    SetCells(d, ArrowCells(x, y, z, direction), 1, _resolve_color(color))

(***************************************************************************)
(* VoxelModel: the .vox writer.                                            *)
(***************************************************************************)
\* concatenation of a sequence of byte strings
RECURSIVE Flatten(_)
Flatten(ss) == IF ss = << >> THEN << >> ELSE Head(ss) \o Flatten(Tail(ss))

\* number of palette entries of a .vox file
PaletteSize == 256

\* the RGBA entries VoxelModel._build_palette emits, in order
BuildPaletteEntries ==
    [k \in 1..PaletteSize |->
        IF k - 1 < Len(PALETTE)
        THEN PALETTE[k][2]
        ELSE LET gray == ((k - 1) * 255) \div 256 IN << gray, gray, gray, 255 >>]

\* VoxelModel._build_palette: the entries as bytes
_build_palette ==
    [b \in 1..(4 * PaletteSize) |-> BuildPaletteEntries[((b - 1) \div 4) + 1][((b - 1) % 4) + 1]]

\* _make_chunk with the two length fields in the other order
_make_chunk_lengths_swapped(chunk_id, content, children) ==
    chunk_id \o PackU32(Len(children)) \o PackU32(Len(content)) \o content \o children

\* VoxelModel._make_chunk
_make_chunk(chunk_id, content, children) ==
    chunk_id \o PackU32(Len(content)) \o PackU32(Len(children)) \o content \o children

\* struct.pack('<BBBB', ...) accepts only values in 0..255
CanPackB(v) == v \in Byte

\* save raises struct.error instead of writing when a record cannot be packed
SaveRaises(sx, sy, sz, d) ==
    \E i \in 1..Len(d) :
        ~ (CanPackB(d[i][1][1]) /\ CanPackB(d[i][1][2]) /\ CanPackB(d[i][1][3])
           /\ CanPackB(d[i][2]))

\* the XYZI content with each record packed as (x, z, y, color_index)
XyziContent_yz_swapped(d) ==
    PackU32(Len(d))
    \o [b \in 1..(4 * Len(d)) |->
           LET e == d[((b - 1) \div 4) + 1]
               f == ((b - 1) % 4) + 1
           IN  IF f = 4 THEN e[2] ELSE IF f = 1 THEN e[1][1] ELSE e[1][5 - f]]

\* the XYZI content of save: the count, then one record per dict item in dict order
XyziContent(d) ==
    PackU32(Len(d))
    \o [b \in 1..(4 * Len(d)) |->
           LET e == d[((b - 1) \div 4) + 1]
               f == ((b - 1) % 4) + 1
           IN  IF f = 4 THEN e[2] ELSE e[1][f]]

\* VoxelModel.save: the bytes written to the file
SaveBytes(sx, sy, sz, d) ==
    LET size_chunk == _make_chunk(TagSIZE, PackU32(sx) \o PackU32(sy) \o PackU32(sz), << >>)
        xyzi_chunk == _make_chunk(TagXYZI, XyziContent(d), << >>)
        rgba_chunk == _make_chunk(TagRGBA, _build_palette, << >>)
        children == size_chunk \o xyzi_chunk \o rgba_chunk
        main_chunk == _make_chunk(TagMAIN, << >>, children)
    IN  TagVOX \o PackU32(150) \o main_chunk

(***************************************************************************)
(* read_vox: the .vox reader.  A reader state is a record                  *)
(*   [pc, pos, end_pos, vox, nchunks, chunk_pos, ret]                      *)
(* ret is "running", "None" (return None), "raise" (struct.error leaves    *)
(* the function) or "model" (return VoxModel(...)).                        *)
(***************************************************************************)
\* the locals before line 56 assigns them
NoVox == [size_x |-> 0, size_y |-> 0, size_z |-> 0, voxels |-> << >>, palette |-> << >>]

\* a default palette of black entries
DefaultPalette_black == [k \in 1..PaletteSize |-> << 0, 0, 0, 255 >>]

\* palette = [(255, 255, 255, 255)] * 256
DefaultPalette == [k \in 1..PaletteSize |-> << 255, 255, 255, 255 >>]

ReaderStart ==
    [pc |-> "header", pos |-> 0, end_pos |-> 0, vox |-> NoVox, nchunks |-> 0,
     chunk_pos |-> 0, ret |-> "running"]

Ended(st, how) == [st EXCEPT !.pc = "done", !.ret = how]

\* lines 37-42: the magic and the version
HeaderStep(data, st) ==
    IF Read(data, 0, 4) # TagVOX THEN Ended(st, "None")
    ELSE IF Len(Read(data, 4, 4)) < 4 THEN Ended([st EXCEPT !.pos = Tell(data, 4, 4)], "raise")
    ELSE [st EXCEPT !.pc = "main", !.pos = 8]

\* MainStep without the test of the top-level tag
MainStep_any_tag(data, st) ==
    LET p == st.pos
        cs == Read(data, p + 4, 4)
        ccs == Read(data, p + 8, 4)
    IN  IF Len(cs) < 4 \/ Len(ccs) < 4
        THEN Ended([st EXCEPT !.pos = Len(data)], "raise")
        ELSE LET after == Tell(data, p + 12, UnpackU32(cs))
             IN  [st EXCEPT !.pc = "chunks",
                            !.pos = after,
                            !.end_pos = after + UnpackU32(ccs),
                            !.vox = [size_x |-> 0, size_y |-> 0, size_z |-> 0,
                                     voxels |-> << >>, palette |-> DefaultPalette]]

\* lines 45-61: the MAIN header, the defaults and end_pos
MainStep(data, st) ==
    LET p == st.pos
        main_id == Read(data, p, 4)
        cs == Read(data, p + 4, 4)
        ccs == Read(data, p + 8, 4)
    IN  IF main_id # TagMAIN THEN Ended([st EXCEPT !.pos = Tell(data, p, 4)], "None")
        ELSE IF Len(cs) < 4 \/ Len(ccs) < 4
             THEN Ended([st EXCEPT !.pos = Len(data)], "raise")
        ELSE LET after == Tell(data, p + 12, UnpackU32(cs))
             IN  [st EXCEPT !.pc = "chunks",
                            !.pos = after,
                            !.end_pos = after + UnpackU32(ccs),
                            !.vox = [size_x |-> 0, size_y |-> 0, size_z |-> 0,
                                     voxels |-> << >>, palette |-> DefaultPalette]]

\* lines 75-77: voxels[(x, y, z)] = i for n records starting at offset p
RECURSIVE ReadRecords(_, _, _, _)
ReadRecords(d, data, p, n) ==
    IF n = 0 THEN d
    ELSE ReadRecords(DictSet(d, << data[p + 1], data[p + 2], data[p + 3] >>, data[p + 4]),
                     data, p + 4, n - 1)

\* lines 80-82: palette[i] = (r, g, b, a) for the 256 entries at offset p
ReadPalette(data, p) ==
    [k \in 1..PaletteSize |->
        << data[p + 4 * (k - 1) + 1], data[p + 4 * (k - 1) + 2],
           data[p + 4 * (k - 1) + 3], data[p + 4 * (k - 1) + 4] >>]

\* lines 70-71: the SIZE branch, payload at offset p
SizeBranch(data, st, p) ==
    IF Len(Read(data, p, 12)) < 12 THEN Ended([st EXCEPT !.pos = Len(data)], "raise")
    ELSE [st EXCEPT !.pos = p + 12,
                    !.vox.size_x = UnpackU32(Read(data, p, 4)),
                    !.vox.size_y = UnpackU32(Read(data, p + 4, 4)),
                    !.vox.size_z = UnpackU32(Read(data, p + 8, 4))]

\* lines 73-77: the XYZI branch, payload at offset p
XyziBranch(data, st, p) ==
    IF Len(Read(data, p, 4)) < 4 THEN Ended([st EXCEPT !.pos = Len(data)], "raise")
    ELSE LET num_voxels == UnpackU32(Read(data, p, 4))
         IN  IF p + 4 + 4 * num_voxels > Len(data)
             THEN Ended([st EXCEPT !.pos = Len(data)], "raise")
             ELSE [st EXCEPT !.pos = p + 4 + 4 * num_voxels,
                             !.vox.voxels = ReadRecords(st.vox.voxels, data, p + 4,
                                                        num_voxels)]

\* lines 79-82: the RGBA branch, payload at offset p
RgbaBranch(data, st, p) ==
    IF p + 4 * PaletteSize > Len(data) THEN Ended([st EXCEPT !.pos = Len(data)], "raise")
    ELSE [st EXCEPT !.pos = p + 4 * PaletteSize, !.vox.palette = ReadPalette(data, p)]

\* an unknown chunk skipped by its content length alone
SkipBranch_content_only(data, st, p, chunk_content_size, chunk_children_size) ==
    [st EXCEPT !.pos = Tell(data, p, chunk_content_size)]

\* lines 84-86: an unknown chunk, payload at offset p
SkipBranch(data, st, p, chunk_content_size, chunk_children_size) ==
    [st EXCEPT !.pos = Tell(data, p, chunk_content_size + chunk_children_size)]

\* lines 62-86: one iteration of the child-chunk loop, entered with pos < end_pos
ChunkStep(data, st) ==
    LET p == st.pos
        chunk_id == Read(data, p, 4)
        cs == Read(data, p + 4, 4)
        ccs == Read(data, p + 8, 4)
        in == [st EXCEPT !.nchunks = st.nchunks + 1, !.chunk_pos = p]
    IN  IF Len(chunk_id) < 4 THEN Ended([st EXCEPT !.pos = Len(data)], "model")
        ELSE IF Len(cs) < 4 \/ Len(ccs) < 4
             THEN Ended([st EXCEPT !.pos = Len(data)], "raise")
        ELSE IF chunk_id = TagSIZE THEN SizeBranch(data, in, p + 12)
        ELSE IF chunk_id = TagXYZI THEN XyziBranch(data, in, p + 12)
        ELSE IF chunk_id = TagRGBA THEN RgbaBranch(data, in, p + 12)
        ELSE SkipBranch(data, in, p + 12, UnpackU32(cs), UnpackU32(ccs))

\* one step of read_vox
ReaderStep(data, st) ==
    IF st.pc = "header" THEN HeaderStep(data, st)
    ELSE IF st.pc = "main" THEN MainStep(data, st)
    ELSE IF st.pc = "chunks"
         THEN IF st.pos < st.end_pos THEN ChunkStep(data, st) ELSE Ended(st, "model")
    ELSE st

\* read_vox(data): the reader state when the call has ended
RECURSIVE RunReader(_, _)
RunReader(data, st) ==
    IF st.pc = "done" THEN st ELSE RunReader(data, ReaderStep(data, st))

read_vox(data) == RunReader(data, ReaderStart)

(***************************************************************************)
(* The arguments the calls are made with: in range, negative, zero, on the *)
(* last cell of an axis and beyond the extents.                            *)
(***************************************************************************)
\* constructor arguments (size_x, size_y, size_z)
SizeArgs == { << 2, 2, 2 >>, << 0, -1, 300 >> }

\* coordinates for set_voxel, set_voxel_named, remove_voxel
PointArgs == { << 0, 0, 0 >>, << 1, 0, 1 >>, << 0, 0, 255 >>,
               << -1, 0, 0 >>, << 1, 2, 1 >>, << 0, 0, 256 >> }

\* palette indices for set_voxel
IndexArgs == { 0, 1, 255, 256 }

\* material names for set_voxel_named
NameArgs == { "belt", "no_such_material" }

\* colour arguments of the fill and draw primitives
ColorArgs == { << "int", 0 >>, << "int", 300 >>, << "str", "belt" >>,
               << "tuple", << 184, 115, 50, 0 >> >> }

\* corner pairs for fill_box and fill_box_hollow, end points for draw_line
BoxArgs == { << << 0, 0, 0 >>, << 1, 1, 1 >> >>,
             << << 1, 0, 256 >>, << -1, 0, 254 >> >>,
             << << 2, 2, 2 >>, << 3, 3, 3 >> >>,
             << << -1, -1, -1 >>, << 1, 1, 1 >> >>,
             << << 1, 1, 1 >>, << -1, -1, -1 >> >> }

ThicknessArgs == { 1 }

\* (cx, cy, z1, z2, radius) for fill_cylinder
CylinderArgs == { << 0, 0, 1, 0, 1 >>, << 1, 1, -1, -1, 2 >>, << 0, 0, 255, 256, 0 >> }

\* (tip, direction) for draw_arrow
ArrowArgs == { << << 0, 1, 0 >>, "+y" >>, << << 1, 0, 0 >>, "+x" >>,
               << << 0, 0, 254 >>, "-z" >>, << << 0, 0, 0 >>, "up" >> }

(***************************************************************************)
(* Spec: a VoxelModel is constructed, built with at most MaxOps primitive  *)
(* calls, saved, and the file is read back by read_vox.                    *)
(***************************************************************************)
ReaderIdle ==
    /\ pc = "idle" /\ pos = 0 /\ end_pos = 0 /\ vox = NoVox /\ nchunks = 0
    /\ chunk_pos = 0 /\ ret = "running"

\* VoxelModel(size_x, size_y, size_z)
Init ==
    /\ \E a \in SizeArgs :
          /\ size_x = ClampSize(a[1])
          /\ size_y = ClampSize(a[2])
          /\ size_z = ClampSize(a[3])
          /\ last = << "__init__", a >>
    /\ voxels = << >>
    /\ prev = << >>
    /\ nops = 0
    /\ file = << >>
    /\ ReaderIdle
    /\ naive = << >> /\ greedy = << >>
    /\ passes = << >> /\ shared = << >>
    /\ closest = 0 /\ line = << >> /\ ctl = << >>

\* a primitive call that leaves the dict as d
Call(d, what) ==
    /\ pc = "idle"
    /\ nops < MaxOps
    /\ voxels' = d
    /\ prev' = voxels
    /\ last' = what
    /\ nops' = nops + 1
    /\ UNCHANGED << size_x, size_y, size_z, file >>
    /\ UNCHANGED readVars
    /\ UNCHANGED meshVars
    /\ UNCHANGED passVars
    /\ UNCHANGED auxVars

SetVoxel ==
    \E p \in PointArgs, i \in IndexArgs :
        Call(set_voxel(voxels, p[1], p[2], p[3], i), << "set_voxel", p, i >>)

SetVoxelNamed ==
    \E p \in PointArgs, m \in NameArgs :
        Call(set_voxel_named(voxels, p[1], p[2], p[3], m), << "set_voxel_named", p, m >>)

RemoveVoxel ==
    \E p \in PointArgs :
        Call(remove_voxel(voxels, p[1], p[2], p[3]), << "remove_voxel", p >>)

FillBox ==
    \E b \in BoxArgs, c \in ColorArgs :
        Call(fill_box(voxels, b[1][1], b[1][2], b[1][3], b[2][1], b[2][2], b[2][3], c),
             << "fill_box", b, c >>)

FillBoxHollow ==
    \E b \in BoxArgs, c \in ColorArgs, t \in ThicknessArgs :
        Call(fill_box_hollow(voxels, b[1][1], b[1][2], b[1][3],
                             b[2][1], b[2][2], b[2][3], c, t),
             << "fill_box_hollow", b, c, t >>)

FillCylinder ==
    \E a \in CylinderArgs, c \in ColorArgs :
        Call(fill_cylinder(voxels, a[1], a[2], a[3], a[4], a[5], c),
             << "fill_cylinder", a, c >>)

DrawLine ==
    \E b \in BoxArgs, c \in ColorArgs :
        Call(draw_line(voxels, b[1][1], b[1][2], b[1][3], b[2][1], b[2][2], b[2][3], c),
             << "draw_line", b, c >>)

DrawArrow ==
    \E a \in ArrowArgs, c \in ColorArgs :
        Call(draw_arrow(voxels, a[1][1], a[1][2], a[1][3], a[2], c),
             << "draw_arrow", a, c >>)

\* VoxelModel.save(filename), then read_vox(filename) is called
Save ==
    /\ pc = "idle"
    /\ file' = IF SaveRaises(size_x, size_y, size_z, voxels)
               THEN file
               ELSE SaveBytes(size_x, size_y, size_z, voxels)
    /\ pc' = IF SaveRaises(size_x, size_y, size_z, voxels) THEN "done" ELSE "header"
    /\ last' = << "save" >>
    /\ prev' = voxels
    /\ UNCHANGED << size_x, size_y, size_z, voxels, nops >>
    /\ UNCHANGED << pos, end_pos, vox, nchunks, chunk_pos, ret >>
    /\ UNCHANGED meshVars
    /\ UNCHANGED passVars
    /\ UNCHANGED auxVars

Cur == [pc |-> pc, pos |-> pos, end_pos |-> end_pos, vox |-> vox,
        nchunks |-> nchunks, chunk_pos |-> chunk_pos, ret |-> ret]

Becomes(st) ==
    /\ pc' = st.pc
    /\ pos' = st.pos
    /\ end_pos' = st.end_pos
    /\ vox' = st.vox
    /\ nchunks' = st.nchunks
    /\ chunk_pos' = st.chunk_pos
    /\ ret' = st.ret
    /\ UNCHANGED gridVars
    /\ UNCHANGED file
    /\ UNCHANGED meshVars
    /\ UNCHANGED passVars
    /\ UNCHANGED auxVars

\* read_vox, lines 35-42
ReadHeader == pc = "header" /\ Becomes(HeaderStep(file, Cur))

\* read_vox, lines 45-61
ReadMain == pc = "main" /\ Becomes(MainStep(file, Cur))

\* read_vox, lines 62-86: one iteration of the while loop
ReadChunk == pc = "chunks" /\ pos < end_pos /\ Becomes(ChunkStep(file, Cur))

\* read_vox, line 88
Return == pc = "chunks" /\ pos >= end_pos /\ Becomes(Ended(Cur, "model"))

Next ==
    \/ SetVoxel \/ SetVoxelNamed \/ RemoveVoxel
    \/ FillBox \/ FillBoxHollow \/ FillCylinder \/ DrawLine \/ DrawArrow
    \/ Save
    \/ ReadHeader \/ ReadMain \/ ReadChunk \/ Return

Spec == Init /\ [][Next]_vars

(***************************************************************************)
(* Properties of Spec.                                                     *)
(***************************************************************************)
InExtents(k, sx, sy, sz) ==
    /\ 0 <= k[1] /\ k[1] < sx
    /\ 0 <= k[2] /\ k[2] < sy
    /\ 0 <= k[3] /\ k[3] < sz

\* C1: when read_vox has read the file that save wrote for the model, it has
\* returned a model with the same extents, exactly the same coordinate->index
\* pairs and the 256-entry palette the writer emitted (an empty grid included).
RoundTrip ==
    (pc = "done" /\ last = << "save" >>) =>
        /\ ret = "model"
        /\ vox.size_x = size_x /\ vox.size_y = size_y /\ vox.size_z = size_z
        /\ Len(vox.voxels) = Len(voxels)
        /\ DictPairs(vox.voxels) = DictPairs(voxels)
        /\ Len(vox.palette) = 256
        /\ vox.palette = BuildPaletteEntries

\* a grid of two or more voxels, one on the last cell of a 256-long axis, has
\* been saved and read back
RoundTripWitness ==
    /\ pc = "done" /\ ret = "model" /\ last = << "save" >>
    /\ size_z = 256
    /\ Len(voxels) >= 2
    /\ \E i \in 1..Len(voxels) : voxels[i][1][3] = 255

\* C4: after any sequence of primitive calls every stored key lies within the
\* extents and every stored value is a palette index in 1..255.
GridInvariant ==
    \A i \in 1..Len(voxels) :
        /\ InExtents(voxels[i][1], size_x, size_y, size_z)
        /\ voxels[i][2] \in 1..255

\* a second call, a box reaching below 0 and beyond the extents filled with the
\* index 300, has stored voxels
GridInvariantWitness ==
    /\ nops >= 2
    /\ last[1] \in { "fill_box", "fill_box_hollow" }
    /\ last[2] = << << 1, 0, 256 >>, << -1, 0, 254 >> >>
    /\ last[3] = << "int", 300 >>
    /\ voxels # prev

\* C5: set_voxel with a coordinate outside the extents or an index outside
\* 1..255 leaves the map as it was; otherwise it stores the index at exactly
\* that key and leaves every other key as it was.
SetVoxelEffect ==
    last[1] = "set_voxel" =>
        LET p == last[2]
            i == last[3]
        IN  IF InExtents(p, size_x, size_y, size_z) /\ i \in 1..255
            THEN /\ DictPairs(voxels)
                      = { e \in DictPairs(prev) : e[1] # p } \cup { << p, i >> }
                 /\ Len(voxels) = Cardinality(DictPairs(voxels))
            ELSE voxels = prev

\* set_voxel was called on a grid that holds voxels with z = size_z
SetVoxelOutsideWitness ==
    /\ last[1] = "set_voxel"
    /\ last[2][3] = size_z
    /\ last[3] \in 1..255
    /\ prev # << >>

\* C12: the file save wrote is "VOX ", version 150, then one MAIN chunk with
\* empty content whose children are SIZE (content 12: the extents), XYZI
\* (content 4 + 4 * N, its count field N, N the number of stored voxels) and
\* RGBA (content 1024), each with children length 0, in that order; MAIN's
\* children length is the length of the three, and the file ends with them.
WriterLayout ==
    last = << "save" >> =>
        LET N == Len(voxels)
            xyzi_at == 20 + 24
            rgba_at == xyzi_at + 12 + 4 + 4 * N
        IN  /\ Read(file, 0, 4) = << 86, 79, 88, 32 >>
            /\ Read(file, 4, 4) = << 150, 0, 0, 0 >>
            /\ Read(file, 8, 4) = << 77, 65, 73, 78 >>
            /\ UnpackU32(Read(file, 12, 4)) = 0
            /\ UnpackU32(Read(file, 16, 4)) = 24 + (16 + 4 * N) + (12 + 1024)
            /\ Len(file) = 20 + 24 + (16 + 4 * N) + (12 + 1024)
            /\ Read(file, 20, 4) = << 83, 73, 90, 69 >>
            /\ UnpackU32(Read(file, 24, 4)) = 12
            /\ UnpackU32(Read(file, 28, 4)) = 0
            /\ UnpackU32(Read(file, 32, 4)) = size_x
            /\ UnpackU32(Read(file, 36, 4)) = size_y
            /\ UnpackU32(Read(file, 40, 4)) = size_z
            /\ Read(file, xyzi_at, 4) = << 88, 89, 90, 73 >>
            /\ UnpackU32(Read(file, xyzi_at + 4, 4)) = 4 + 4 * N
            /\ UnpackU32(Read(file, xyzi_at + 8, 4)) = 0
            /\ UnpackU32(Read(file, xyzi_at + 12, 4)) = N
            /\ Read(file, rgba_at, 4) = << 82, 71, 66, 65 >>
            /\ UnpackU32(Read(file, rgba_at + 4, 4)) = 1024
            /\ UnpackU32(Read(file, rgba_at + 8, 4)) = 0

\* save has written a grid of two or more voxels
WriterLayoutWitness ==
    /\ last = << "save" >> /\ pc = "header"
    /\ Len(voxels) >= 2
    /\ Len(file) = 20 + 24 + (16 + 4 * Len(voxels)) + 1036

\* the dict d with the items at positions i and j in each other's place: the
\* same coordinate->index map, built by calls made in another order
Swapped(d, i, j) ==
    [k \in 1..Len(d) |-> IF k = i THEN d[j] ELSE IF k = j THEN d[i] ELSE d[k]]

\* C13: the bytes save wrote are those save writes for every model of the same
\* extents and the same coordinate->index map, whatever the order in which the
\* map was built.
WriterDeterminism ==
    (last = << "save" >> /\ ~ SaveRaises(size_x, size_y, size_z, voxels)) =>
        \A i \in 1..Len(voxels), j \in 1..Len(voxels) :
            /\ DictPairs(Swapped(voxels, i, j)) = DictPairs(voxels)
            /\ SaveBytes(size_x, size_y, size_z, Swapped(voxels, i, j)) = file

\* C20: a call of fill_box, fill_box_hollow, fill_cylinder, draw_line or
\* draw_arrow with an integer palette index outside 1..255 stores no voxel and
\* leaves the grid as it was.
OutOfRangeIndexDropped ==
    (/\ last[1] \in { "fill_box", "fill_box_hollow", "fill_cylinder", "draw_line",
                      "draw_arrow" }
     /\ last[3][1] = "int" /\ last[3][2] \notin 1..255) =>
        voxels = prev

\* the in-grid cells of the inclusive box [min..max] of the two corners that lie
\* within thickness cells of one of its six faces
ShellCells(p, q, thickness) ==
    LET lo(k) == Min(p[k], q[k])
        hi(k) == Max(p[k], q[k])
    IN  { c \in (0..(size_x - 1)) \X (0..(size_y - 1)) \X (0..(size_z - 1)) :
            /\ \A k \in 1..3 : lo(k) <= c[k] /\ c[k] <= hi(k)
            /\ \E k \in 1..3 : c[k] - lo(k) < thickness \/ hi(k) - c[k] < thickness }

\* C23: fill_box_hollow, for corners given in either order, sets exactly the
\* in-grid cells of the box [min..max] that lie within thickness cells of one
\* of its six faces and leaves every other cell, the interior of the box
\* included, as it was.
HollowShell ==
    last[1] = "fill_box_hollow" =>
        LET set == ShellCells(last[2][1], last[2][2], last[4])
        IN  DictPairs(voxels)
              = { e \in DictPairs(prev) : e[1] \notin set }
                \cup { << c, _resolve_color(last[3]) >> : c \in set }

(***************************************************************************)
(* SpecRead: read_vox on files some other program wrote.  A file is        *)
(* described by a record                                                   *)
(*   [size, xyzi, rgba, ins, damage]                                       *)
(* size, xyzi and rgba say which form of each known chunk MAIN holds, ins  *)
(* is a sequence of <<gap, kind>>: chunks of unknown tags put before SIZE  *)
(* (gap 0), between SIZE and XYZI (1), between XYZI and RGBA (2) or after  *)
(* RGBA (3), and damage says how the file departs from the framing.        *)
(***************************************************************************)
TagPACK == << 80, 65, 67, 75 >>     \* b'PACK'
TagnTRN == << 110, 84, 82, 78 >>    \* b'nTRN'
TagMAIM == << 77, 65, 73, 77 >>     \* b'MAIM'
TagVOY  == << 86, 79, 89, 32 >>     \* b'VOY '

SizeForms == { "absent", "ok", "bad", "wide" }
XyziForms == { "absent", "valid", "stray" }
RgbaForms == { "absent", "present" }
UnknownKinds == { "PACK", "nTRN" }
Gaps == 0..3
Damages == { "magic", "short_version", "main_tag", "main_content", "children_more",
             "children_zero", "cut1", "cut5", "cut13" }

\* a chunk of an unknown tag: content only, or content and children
UnknownTag(kind) == IF kind = "PACK" THEN TagPACK ELSE TagnTRN
UnknownContent(kind) == IF kind = "PACK" THEN << 1, 0, 0, 0 >> ELSE << 9, 9 >>
UnknownChildren(kind) == IF kind = "PACK" THEN << >> ELSE << 7, 7, 7 >>
UnknownChunk(kind) ==
    _make_chunk(UnknownTag(kind), UnknownContent(kind), UnknownChildren(kind))

\* the SIZE content of each form: extents 2 x 2 x 1, extents outside 1..256,
\* and 2 x 2 x 1 followed by four more content bytes
SizeContent(form) ==
    IF form = "ok" THEN PackU32(2) \o PackU32(2) \o PackU32(1)
    ELSE IF form = "bad" THEN PackU32(0) \o PackU32(300) \o PackU32(1)
    ELSE PackU32(2) \o PackU32(2) \o PackU32(1) \o << 0, 0, 0, 0 >>

SizeChunk(form) ==
    IF form = "absent" THEN << >> ELSE _make_chunk(TagSIZE, SizeContent(form), << >>)

\* the XYZI records of each form: "stray" holds a record beyond 2 x 2 x 1 and a
\* record of colour index 0
XyziRecords(form) ==
    IF form = "valid" THEN << << << 0, 0, 0 >>, 1 >>, << << 1, 0, 0 >>, 2 >> >>
    ELSE << << << 0, 0, 0 >>, 1 >>, << << 5, 0, 0 >>, 2 >>, << << 0, 1, 0 >>, 0 >> >>

XyziChunk(form) ==
    IF form = "absent" THEN << >>
    ELSE _make_chunk(TagXYZI, XyziContent(XyziRecords(form)), << >>)

RgbaChunk(form) ==
    IF form = "absent" THEN << >> ELSE _make_chunk(TagRGBA, _build_palette, << >>)

\* the inserted chunks of one gap, in order
GapBytes(ins, g) ==
    LET sel == SelectSeq(ins, LAMBDA e : e[1] = g)
    IN  Flatten([i \in 1..Len(sel) |-> UnknownChunk(sel[i][2])])

\* the children of MAIN
ChildrenOf(desc) ==
    GapBytes(desc.ins, 0) \o SizeChunk(desc.size)
    \o GapBytes(desc.ins, 1) \o XyziChunk(desc.xyzi)
    \o GapBytes(desc.ins, 2) \o RgbaChunk(desc.rgba)
    \o GapBytes(desc.ins, 3)

\* the first n bytes of data, all of it when n is not less than its length
Prefix(data, n) == IF n >= Len(data) THEN data ELSE IF n <= 0 THEN << >> ELSE SubSeq(data, 1, n)

\* the bytes of the file a description stands for
FileOf(desc) ==
    LET dmg == desc.damage
        children == ChildrenOf(desc)
        content == IF dmg = "main_content" THEN << 42 >> ELSE << >>
        declared == IF dmg = "children_more" THEN Len(children) + 7
                    ELSE IF dmg = "children_zero" THEN 0
                    ELSE Len(children)
        whole == (IF dmg = "magic" THEN TagVOY ELSE TagVOX)
                 \o PackU32(150)
                 \o (IF dmg = "main_tag" THEN TagMAIM ELSE TagMAIN)
                 \o PackU32(Len(content)) \o PackU32(declared)
                 \o content \o children
    IN  IF dmg = "short_version" THEN Prefix(whole, 6)
        ELSE IF dmg = "cut1" THEN Prefix(whole, Len(whole) - 1)
        ELSE IF dmg = "cut5" THEN Prefix(whole, Len(whole) - 5)
        ELSE IF dmg = "cut13" THEN Prefix(whole, Len(whole) - 13)
        ELSE whole

\* the sequences of at most n insertions
RECURSIVE InsSeqs(_)
InsSeqs(n) ==
    IF n = 0 THEN { << >> }
    ELSE InsSeqs(n - 1)
         \cup { Append(q, << g, k >>) : q \in InsSeqs(n - 1), g \in Gaps, k \in UnknownKinds }

\* well-framed files with up to MaxInserted unknown chunks, and damaged files
\* with at most one
FileDescs ==
    [size : SizeForms, xyzi : XyziForms, rgba : RgbaForms,
     ins : InsSeqs(MaxInserted), damage : { "none" }]
    \cup
    [size : SizeForms, xyzi : XyziForms, rgba : RgbaForms,
     ins : InsSeqs(1), damage : Damages]

\* read_vox(filepath) is called on a file
InitRead ==
    /\ \E desc \in FileDescs :
          /\ file = FileOf(desc)
          /\ last = << "file", desc >>
    /\ size_x = 1 /\ size_y = 1 /\ size_z = 1
    /\ voxels = << >>
    /\ prev = << >>
    /\ nops = 0
    /\ pc = "header" /\ pos = 0 /\ end_pos = 0 /\ vox = NoVox /\ nchunks = 0
    /\ chunk_pos = 0 /\ ret = "running"
    /\ naive = << >> /\ greedy = << >>
    /\ passes = << >> /\ shared = << >>
    /\ closest = 0 /\ line = << >> /\ ctl = << >>

NextRead == ReadHeader \/ ReadMain \/ ReadChunk \/ Return

SpecRead == InitRead /\ [][NextRead]_vars

(***************************************************************************)
(* Properties of SpecRead.                                                 *)
(***************************************************************************)
\* the description of the file being read
Desc == last[2]

\* the chunks a description puts under MAIN, as <<tag, content, children>>
DescChunks(desc) ==
    { << UnknownTag(k), UnknownContent(k), UnknownChildren(k) >> :
        k \in { desc.ins[i][2] : i \in 1..Len(desc.ins) } }
    \cup (IF desc.size = "absent" THEN { }
          ELSE { << TagSIZE, SizeContent(desc.size), << >> >> })
    \cup (IF desc.xyzi = "absent" THEN { }
          ELSE { << TagXYZI, XyziContent(XyziRecords(desc.xyzi)), << >> >> })
    \cup (IF desc.rgba = "absent" THEN { }
          ELSE { << TagRGBA, _build_palette, << >> >> })

\* C3: when read_vox has decoded a chunk of a well-framed file, the chunk it
\* decoded at chunk_pos is one _make_chunk(tag, content, children) produced: it
\* read that tag and those two lengths, and its cursor has moved by exactly
\* 12 + len(content) + len(children) bytes.
ChunkFraming ==
    (last[1] = "file" /\ Desc.damage = "none" /\ nchunks >= 1 /\ ret # "raise") =>
        \E c \in DescChunks(Desc) :
            LET made == _make_chunk(c[1], c[2], c[3])
            IN  /\ Read(file, chunk_pos, Len(made)) = made
                /\ Read(file, chunk_pos, 4) = c[1]
                /\ UnpackU32(Read(file, chunk_pos + 4, 4)) = Len(c[2])
                /\ UnpackU32(Read(file, chunk_pos + 8, 4)) = Len(c[3])
                /\ pos = chunk_pos + 12 + Len(c[2]) + Len(c[3])

\* C24: when read_vox has processed a child chunk of MAIN, whatever its tag and
\* its declared lengths, the cursor stands 12 + declared content length
\* + declared children length bytes past the start of that chunk.
CursorAdvance ==
    (last[1] = "file" /\ pc = "chunks" /\ nchunks >= 1) =>
        pos = chunk_pos + 12 + UnpackU32(Read(file, chunk_pos + 4, 4))
                             + UnpackU32(Read(file, chunk_pos + 8, 4))

\* C6: every key of the voxel map read_vox returns lies within the extents it
\* returns.
ReaderBoundsChecked ==
    (last[1] = "file" /\ pc = "done" /\ ret = "model") =>
        \A i \in 1..Len(vox.voxels) :
            InExtents(vox.voxels[i][1], vox.size_x, vox.size_y, vox.size_z)

\* C7: the extents of every grid are in 1..256: those of a constructed
\* VoxelModel and those of a model read_vox returns.
ExtentsInvariant ==
    /\ size_x \in 1..256 /\ size_y \in 1..256 /\ size_z \in 1..256
    /\ (pc = "done" /\ ret = "model") =>
           vox.size_x \in 1..256 /\ vox.size_y \in 1..256 /\ vox.size_z \in 1..256

\* the magic and the MAIN header are in place and MAIN declares more content
\* and children bytes than the file holds after its header
MainTruncated(data) ==
    /\ Len(data) >= 20
    /\ Read(data, 0, 4) = TagVOX
    /\ Read(data, 8, 4) = TagMAIN
    /\ 20 + UnpackU32(Read(data, 12, 4)) + UnpackU32(Read(data, 16, 4)) > Len(data)

\* C8: read_vox on a file whose MAIN chunk declares more bytes than remain
\* ends with a fault and returns no model.
TruncatedFails ==
    (last[1] = "file" /\ pc = "done" /\ MainTruncated(file)) => ret = "raise"

\* C9: with a wrong magic read_vox returns None, with a wrong top-level tag
\* after the version it returns None, and in both cases no child chunk is
\* parsed and no local of the model is assigned.
MagicAndMainChecked ==
    last[1] = "file" =>
        /\ Read(file, 0, 4) # TagVOX =>
              /\ pc = "done" => ret = "None"
              /\ ret # "model" /\ nchunks = 0 /\ vox = NoVox
        /\ (Read(file, 0, 4) = TagVOX /\ Len(file) >= 8 /\ Read(file, 8, 4) # TagMAIN) =>
              /\ pc = "done" => ret = "None"
              /\ ret # "model" /\ nchunks = 0 /\ vox = NoVox

\* read_vox has returned None on a file with the right magic, a top-level tag
\* other than MAIN and child chunks after it
MagicAndMainWitness ==
    /\ last[1] = "file" /\ Desc.damage = "main_tag" /\ Desc.xyzi # "absent"
    /\ pc = "done" /\ ret = "None"

EmptyMesh == [vertices |-> << >>, faces |-> << >>, face_colors |-> << >>,
              materials |-> << >>]

\* ((x - size_x / 2) * voxel_size, (y - size_y / 2) * voxel_size, z * voxel_size)
VertexPos(model, c) == << 2 * c[1] - model.size_x, 2 * c[2] - model.size_y, 2 * c[3] >>

\* palette[color_index] in place of palette[color_index - 1]
PaletteAt_no_offset(palette, color_index) == palette[(color_index % PaletteSize) + 1]

\* palette[color_index - 1] of a 256-entry Python list: -1 is the last entry
PaletteAt(palette, color_index) == palette[((color_index - 1) % PaletteSize) + 1]

\* a registration that keeps only the first colour registered
RegisterAll_first_only(model, cs) ==
    IF cs = << >> THEN << >> ELSE << << cs[1], PaletteAt(model.palette, cs[1]) >> >>

\* if color_index not in materials: materials[color_index] = palette[color_index - 1] / 255,
\* for the colours of cs in order: each colour enters at its first occurrence
RegisterAll(model, cs) ==
    LET firsts == { i \in 1..Len(cs) : \A j \in 1..(i - 1) : cs[j] # cs[i] }
        nth(k) == CHOOSE i \in firsts : Cardinality({ j \in firsts : j <= i }) = k
    IN  [k \in 1..Cardinality(firsts) |->
            << cs[nth(k)], PaletteAt(model.palette, cs[nth(k)]) >>]

\* QuadFaces whose second triangle of a flipped quad keeps the unflipped order
QuadFaces_second_unflipped(q, flip) ==
    LET base_idx == 4 * q
    IN  IF flip
        THEN << << base_idx, base_idx + 3, base_idx + 2 >>,
                << base_idx, base_idx + 2, base_idx + 3 >> >>
        ELSE << << base_idx, base_idx + 1, base_idx + 2 >>,
                << base_idx, base_idx + 2, base_idx + 3 >> >>

\* the two triangles of quad number q (from 0), base_idx = 4 * q
QuadFaces(q, flip) ==
    LET base_idx == 4 * q
    IN  IF flip
        THEN << << base_idx, base_idx + 3, base_idx + 2 >>,
                << base_idx, base_idx + 2, base_idx + 1 >> >>
        ELSE << << base_idx, base_idx + 1, base_idx + 2 >>,
                << base_idx, base_idx + 2, base_idx + 3 >> >>

\* the mesh of a sequence of quads [corners, flip, color], each appended as four
\* vertices, two triangles and two colours, with the colours registered in cs
MeshOf(model, quads, cs) ==
    [vertices |-> [k \in 1..(4 * Len(quads)) |->
                      VertexPos(model, quads[((k - 1) \div 4) + 1].corners[((k - 1) % 4) + 1])],
     faces |-> [k \in 1..(2 * Len(quads)) |->
                   QuadFaces((k - 1) \div 2, quads[((k - 1) \div 2) + 1].flip)[((k - 1) % 2) + 1]],
     face_colors |-> [k \in 1..(2 * Len(quads)) |-> quads[((k - 1) \div 2) + 1].color],
     materials |-> RegisterAll(model, cs)]

\* _generate_naive_mesh: face_directions
face_directions ==
    << << << 1, 0, 0 >>,  << << 1, 0, 0 >>, << 1, 1, 0 >>, << 1, 1, 1 >>, << 1, 0, 1 >> >> >>,
       << << -1, 0, 0 >>, << << 0, 0, 0 >>, << 0, 0, 1 >>, << 0, 1, 1 >>, << 0, 1, 0 >> >> >>,
       << << 0, 1, 0 >>,  << << 0, 1, 0 >>, << 0, 1, 1 >>, << 1, 1, 1 >>, << 1, 1, 0 >> >> >>,
       << << 0, -1, 0 >>, << << 0, 0, 0 >>, << 1, 0, 0 >>, << 1, 0, 1 >>, << 0, 0, 1 >> >> >>,
       << << 0, 0, 1 >>,  << << 0, 0, 1 >>, << 1, 0, 1 >>, << 1, 1, 1 >>, << 0, 1, 1 >> >> >>,
       << << 0, 0, -1 >>, << << 0, 0, 0 >>, << 0, 1, 0 >>, << 1, 1, 0 >>, << 1, 0, 0 >> >> >> >>

Plus(a, b) == << a[1] + b[1], a[2] + b[2], a[3] + b[3] >>

\* the quads of voxel number i with a quad for every direction
NaiveQuads_all_faces(model, i) ==
    LET p == model.voxels[i][1]
        color_index == model.voxels[i][2]
    IN  [j \in 1..Len(face_directions) |->
            [corners |-> [k \in 1..4 |-> Plus(p, face_directions[j][2][k])],
             flip |-> FALSE,
             color |-> color_index]]

\* lines 140-156: the quads of voxel number i, one per direction whose neighbour
\* is not in voxels, in the order of face_directions
NaiveQuads(model, i) ==
    LET p == model.voxels[i][1]
        color_index == model.voxels[i][2]
        exposed == SelectSeq([d \in 1..Len(face_directions) |-> d],
                             LAMBDA d : ~ DictHas(model.voxels, Plus(p, face_directions[d][1])))
    IN  [j \in 1..Len(exposed) |->
            [corners |-> [k \in 1..4 |-> Plus(p, face_directions[exposed[j]][2][k])],
             flip |-> FALSE,
             color |-> color_index]]

\* lines 135-158: the loop over voxels.items()
_generate_naive_mesh(model) ==
    MeshOf(model,
           Flatten([i \in 1..Len(model.voxels) |-> NaiveQuads(model, i)]),
           [i \in 1..Len(model.voxels) |-> model.voxels[i][2]])

\* _generate_greedy_mesh: directions (normal_axis, u_axis, v_axis, normal_dir, flip_winding)
directions ==
    << << "x", "y", "z", 1, FALSE >>,
       << "x", "y", "z", -1, TRUE >>,
       << "y", "x", "z", 1, TRUE >>,
       << "y", "x", "z", -1, FALSE >>,
       << "z", "x", "y", 1, FALSE >>,
       << "z", "x", "y", -1, TRUE >> >>

get_axis_size(model, axis) ==
    IF axis = "x" THEN model.size_x ELSE IF axis = "y" THEN model.size_y ELSE model.size_z

AxisIndex(axis) == IF axis = "x" THEN 1 ELSE IF axis = "y" THEN 2 ELSE 3

make_pos(n_val, u_val, v_val, n_axis, u_axis, v_axis) ==
    [k \in 1..3 |->
        IF k = AxisIndex(v_axis) THEN v_val
        ELSE IF k = AxisIndex(u_axis) THEN u_val
        ELSE IF k = AxisIndex(n_axis) THEN n_val
        ELSE 0]

\* MaskValue without the test of the neighbour (lines 230-231)
MaskValue_ignores_neighbor(model, dir, n, u, v) ==
    LET p == make_pos(n, u, v, dir[1], dir[2], dir[3])
    IN  IF ~ DictHas(model.voxels, p) THEN 0 ELSE DictGet(model.voxels, p)

\* lines 220-234: the value the mask gets at (u, v) of slice n
MaskValue(model, dir, n, u, v) ==
    LET p == make_pos(n, u, v, dir[1], dir[2], dir[3])
        neighbor == IF dir[4] > 0
                    THEN make_pos(n + 1, u, v, dir[1], dir[2], dir[3])
                    ELSE make_pos(n - 1, u, v, dir[1], dir[2], dir[3])
    IN  IF ~ DictHas(model.voxels, p) THEN 0
        ELSE IF DictHas(model.voxels, neighbor) THEN 0
        ELSE DictGet(model.voxels, p)

\* lines 216-234: mask[u][v] of slice n, as a function of <<u, v>>
BuildMask(model, dir, n) ==
    [c \in (0..(get_axis_size(model, dir[2]) - 1))
           \X (0..(get_axis_size(model, dir[3]) - 1)) |->
        MaskValue(model, dir, n, c[1], c[2])]

\* lines 218-240: the colours registered while the mask of slice n is built, in
\* scan order: cell k is (u, v) = ((k - 1) div v_size, (k - 1) mod v_size), and a
\* cell registers voxels[pos] when pos is in voxels and its neighbour is not
SliceColors(model, dir, n) ==
    LET u_size == get_axis_size(model, dir[2])
        v_size == get_axis_size(model, dir[3])
        P(k) == make_pos(n, (k - 1) \div v_size, (k - 1) % v_size, dir[1], dir[2], dir[3])
        N(k) == make_pos(IF dir[4] > 0 THEN n + 1 ELSE n - 1,
                         (k - 1) \div v_size, (k - 1) % v_size, dir[1], dir[2], dir[3])
        cells == SelectSeq([k \in 1..(u_size * v_size) |-> k],
                           LAMBDA k : DictHas(model.voxels, P(k))
                                      /\ ~ DictHas(model.voxels, N(k)))
    IN  [j \in 1..Len(cells) |-> DictGet(model.voxels, P(cells[j]))]

\* a width that grows over every cell holding a face, whatever its colour
RECURSIVE GrowWidth_any_color(_, _, _, _, _, _)
GrowWidth_any_color(mask, v_size, u, v, color, width) ==
    IF v + width < v_size /\ mask[<< u, v + width >>] # 0
    THEN GrowWidth_any_color(mask, v_size, u, v, color, width + 1)
    ELSE width

\* a width that never grows
GrowWidth_never(mask, v_size, u, v, color, width) == width

\* lines 252-254: while v + width < v_size and mask[u][v + width] == color
RECURSIVE GrowWidth(_, _, _, _, _, _)
GrowWidth(mask, v_size, u, v, color, width) ==
    IF v + width < v_size /\ mask[<< u, v + width >>] = color
    THEN GrowWidth(mask, v_size, u, v, color, width + 1)
    ELSE width

\* a height that runs one row past the mask
GrowHeight_overshoot(mask, u_size, u, v, color, width, height) == u_size - u + 1

\* a height that never grows
GrowHeight_never(mask, u_size, u, v, color, width, height) == height

\* lines 257-265: the growth of height over whole rows of the width
RECURSIVE GrowHeight(_, _, _, _, _, _, _)
GrowHeight(mask, u_size, u, v, color, width, height) ==
    IF u + height < u_size
       /\ \A k \in 0..(width - 1) : mask[<< u + height, v + k >>] = color
    THEN GrowHeight(mask, u_size, u, v, color, width, height + 1)
    ELSE height

\* lines 243-307: the quads extracted from the mask of slice n, from (u, v) on
RECURSIVE ExtractRects(_, _, _, _, _, _, _)
ExtractRects(model, dir, n, mask, u, v, quads) ==
    LET u_size == get_axis_size(model, dir[2])
        v_size == get_axis_size(model, dir[3])
    IN  IF u >= u_size THEN quads
        ELSE IF v >= v_size THEN ExtractRects(model, dir, n, mask, u + 1, 0, quads)
        ELSE LET color == mask[<< u, v >>]
             IN  IF color = 0 THEN ExtractRects(model, dir, n, mask, u, v + 1, quads)
                 ELSE LET width == GrowWidth(mask, v_size, u, v, color, 1)
                          height == GrowHeight(mask, u_size, u, v, color, width, 1)
                          cleared == [c \in DOMAIN mask |->
                                         IF /\ u <= c[1] /\ c[1] < u + height
                                            /\ v <= c[2] /\ c[2] < v + width
                                         THEN 0 ELSE mask[c]]
                          n_coord == IF dir[4] > 0 THEN n + 1 ELSE n
                          corners ==
                              << make_pos(n_coord, u, v, dir[1], dir[2], dir[3]),
                                 make_pos(n_coord, u + height, v, dir[1], dir[2], dir[3]),
                                 make_pos(n_coord, u + height, v + width,
                                          dir[1], dir[2], dir[3]),
                                 make_pos(n_coord, u, v + width, dir[1], dir[2], dir[3]) >>
                      IN  ExtractRects(model, dir, n, cleared, u, v + width,
                                       Append(quads, [corners |-> corners,
                                                      flip |-> dir[5],
                                                      color |-> color]))

\* lines 213-307: the quads of slice n of one direction
SliceQuads(model, dir, n) ==
    ExtractRects(model, dir, n, BuildMask(model, dir, n), 0, 0, << >>)

\* the slices of each direction taken from the last to the first
SliceOrder_descending(model) ==
    Flatten([d \in 1..Len(directions) |->
                [j \in 1..Max(get_axis_size(model, directions[d][1]), 0) |->
                    << directions[d],
                       Max(get_axis_size(model, directions[d][1]), 0) - j >>]])

\* the slices of all directions in the order of the two outer loops (lines 207
\* and 213): slice k (from 1) is <<direction, n>>
SliceOrder(model) ==
    Flatten([d \in 1..Len(directions) |->
                [j \in 1..Max(get_axis_size(model, directions[d][1]), 0) |->
                    << directions[d], j - 1 >>]])

\* lines 207-309
_generate_greedy_mesh(model) ==
    LET slices == SliceOrder(model)
    IN  MeshOf(model,
               Flatten([k \in 1..Len(slices) |-> SliceQuads(model, slices[k][1], slices[k][2])]),
               Flatten([k \in 1..Len(slices) |-> SliceColors(model, slices[k][1], slices[k][2])]))

(***************************************************************************)
(* SpecMesh: generate_optimized_mesh(model, use_greedy) on a VoxModel, for *)
(* both values of use_greedy.                                              *)
(***************************************************************************)
MaxMeshVoxels == 4

MeshSizes == { << 1, 1, 1 >>, << 2, 1, 1 >>, << 2, 2, 2 >>, << 3, 2, 1 >> }

MeshColors == { 1, 255 }

CellsOf(sz) == (0..(sz[1] - 1)) \X (0..(sz[2] - 1)) \X (0..(sz[3] - 1))

\* the cells of S in the order of x, then y, then z
CellSeq(sz, S) ==
    LET rank(c) == (c[1] * 256 + c[2]) * 256 + c[3]
        nth(k) == CHOOSE c \in S : Cardinality({ e \in S : rank(e) <= rank(c) }) = k
    IN  [k \in 1..Cardinality(S) |-> nth(k)]

\* VoxModel(size_x, size_y, size_z, voxels, palette)
VoxModel(sz, S, col) ==
    [size_x |-> sz[1], size_y |-> sz[2], size_z |-> sz[3],
     voxels |-> LET cs == CellSeq(sz, S) IN [k \in 1..Len(cs) |-> << cs[k], col[cs[k]] >>],
     palette |-> BuildPaletteEntries]

MeshModels ==
    UNION { UNION { { VoxModel(sz, S, col) : col \in [S -> MeshColors] } :
                    S \in { T \in SUBSET CellsOf(sz) : Cardinality(T) <= MaxMeshVoxels } } :
            sz \in MeshSizes }

\* models read_vox returns for files whose records are not all within the SIZE
\* extents, carry colour index 0, or that hold no SIZE chunk
StraySizes == { << 1, 1, 1 >>, << 0, 0, 0 >> }

StrayCells == CellsOf(<< 2, 2, 1 >>)

StrayColors == { 0, 1, 2 }

StrayModels ==
    UNION { UNION { { VoxModel(sz, S, col) : col \in [S -> StrayColors] } :
                    S \in SUBSET StrayCells } :
            sz \in StraySizes }

\* files whose model is handed to the meshers: well-framed, SIZE absent, of
\* 2 x 2 x 1 or with a longer content, every form of XYZI and RGBA
MeshFileDescs ==
    [size : SizeForms \ { "bad" }, xyzi : XyziForms, rgba : RgbaForms, ins : { << >> },
     damage : { "none" }]

\* cells for the voxel placed by material name
NamedCells == { << 0, 0, 0 >>, << 1, 1, 1 >> }

\* the model is built by hand; or read_vox has returned it for a file of
\* MeshFileDescs; or VoxelModel(2, 2, 2) with one voxel placed by
\* set_voxel_named was saved and read_vox has returned it from that file
InitMesh ==
    /\ \/ /\ size_x = 1 /\ size_y = 1 /\ size_z = 1
          /\ voxels = << >>
          /\ file = << >>
          /\ vox \in MeshModels \cup StrayModels
          /\ last = << "model" >>
       \/ \E desc \in MeshFileDescs :
             /\ size_x = 1 /\ size_y = 1 /\ size_z = 1
             /\ voxels = << >>
             /\ file = FileOf(desc)
             /\ read_vox(file).ret = "model"
             /\ vox = read_vox(file).vox
             /\ last = << "file", desc >>
       \/ \E material \in PaletteNames, p \in NamedCells :
             /\ size_x = 2 /\ size_y = 2 /\ size_z = 2
             /\ voxels = set_voxel_named(<< >>, p[1], p[2], p[3], material)
             /\ file = SaveBytes(size_x, size_y, size_z, voxels)
             /\ vox = read_vox(file).vox
             /\ last = << "named", material, p >>
    /\ prev = << >>
    /\ nops = 0
    /\ pc = "done" /\ pos = 0 /\ end_pos = 0 /\ nchunks = 0
    /\ chunk_pos = 0 /\ ret = "model"
    /\ naive = << >> /\ greedy = << >>
    /\ passes = << >> /\ shared = << >>
    /\ closest = 0 /\ line = << >> /\ ctl = << >>

\* generate_optimized_mesh(model, use_greedy=False)
GenerateNaive ==
    /\ pc = "done" /\ ret = "model"
    /\ naive = << >>
    /\ naive' = << _generate_naive_mesh(vox) >>
    /\ UNCHANGED << gridVars, file, readVars, greedy, passVars, auxVars >>

\* generate_optimized_mesh(model, use_greedy=True)
GenerateGreedy ==
    /\ pc = "done" /\ ret = "model"
    /\ greedy = << >>
    /\ greedy' = << _generate_greedy_mesh(vox) >>
    /\ UNCHANGED << gridVars, file, readVars, naive, passVars, auxVars >>

NextMesh == GenerateNaive \/ GenerateGreedy

SpecMesh == InitMesh /\ [][NextMesh]_vars

(***************************************************************************)
(* Properties of SpecMesh.  A unit face of a mesh is read off its output:  *)
(* the corner of least coordinates of a 2 x 2 square (one voxel face in    *)
(* units of 1/32), the signs of the normal the winding of the quad's first *)
(* triangle gives, and the colour index of that triangle.                  *)
(***************************************************************************)
Sgn(n) == IF n > 0 THEN 1 ELSE IF n < 0 THEN -1 ELSE 0

Cross(a, b) == << a[2] * b[3] - a[3] * b[2],
                  a[3] * b[1] - a[1] * b[3],
                  a[1] * b[2] - a[2] * b[1] >>

Minus(a, b) == << a[1] - b[1], a[2] - b[2], a[3] - b[3] >>

QuadCount(mesh) == Len(mesh.vertices) \div 4

\* the unit faces quad number q (from 0) of a mesh covers
QuadUnitFaces(mesh, q) ==
    LET V == [k \in 1..4 |-> mesh.vertices[4 * q + k]]
        tri == mesh.faces[2 * q + 1]
        A == mesh.vertices[tri[1] + 1]
        B == mesh.vertices[tri[2] + 1]
        C == mesh.vertices[tri[3] + 1]
        nrm == Cross(Minus(B, A), Minus(C, A))
        lo(k) == Min(Min(V[1][k], V[2][k]), Min(V[3][k], V[4][k]))
        hi(k) == Max(Max(V[1][k], V[2][k]), Max(V[3][k], V[4][k]))
        along(k) == IF lo(k) = hi(k) THEN { lo(k) }
                    ELSE { lo(k) + 2 * j : j \in 0..(((hi(k) - lo(k)) \div 2) - 1) }
    IN  { << << x, y, z >>, << Sgn(nrm[1]), Sgn(nrm[2]), Sgn(nrm[3]) >>,
             mesh.face_colors[2 * q + 1], mesh.face_colors[2 * q + 2] >> :
          x \in along(1), y \in along(2), z \in along(3) }

UnitFaces(mesh) == UNION { QuadUnitFaces(mesh, q) : q \in 0..(QuadCount(mesh) - 1) }

RECURSIVE UnitFaceCount(_, _)
UnitFaceCount(mesh, q) ==
    IF q >= QuadCount(mesh) THEN 0
    ELSE Cardinality(QuadUnitFaces(mesh, q)) + UnitFaceCount(mesh, q + 1)

ModelInContract(model) ==
    \A i \in 1..Len(model.voxels) :
        /\ model.voxels[i][1][1] \in 0..(model.size_x - 1)
        /\ model.voxels[i][1][2] \in 0..(model.size_y - 1)
        /\ model.voxels[i][1][3] \in 0..(model.size_z - 1)
        /\ model.voxels[i][2] \in 1..255

\* C2: for a grid whose keys lie within its extents and whose indices are in
\* 1..255, the rectangles of the greedy mesh, expanded into unit faces, are
\* exactly the unit faces of the naive mesh (same position, same palette index,
\* same direction), each covered by one rectangle only; the naive mesh has one
\* quad per unit face, so that only the number of quads differs.
MeshEquivalence ==
    (naive # << >> /\ greedy # << >> /\ ModelInContract(vox))
        => /\ UnitFaces(greedy[1]) = UnitFaces(naive[1])
           /\ UnitFaceCount(greedy[1], 0) = Cardinality(UnitFaces(greedy[1]))
           /\ QuadCount(naive[1]) = Cardinality(UnitFaces(naive[1]))
           /\ QuadCount(greedy[1]) <= QuadCount(naive[1])

\* both meshes were generated for a grid of four voxels of one colour, and the
\* greedy mesh has merged faces into a rectangle spanning two cells in both
\* directions
MeshEquivalenceWitness ==
    /\ naive # << >> /\ greedy # << >> /\ ModelInContract(vox)
    /\ Len(vox.voxels) = 4
    /\ QuadCount(greedy[1]) < QuadCount(naive[1])
    /\ \E q \in 0..(QuadCount(greedy[1]) - 1) : Cardinality(QuadUnitFaces(greedy[1], q)) = 4

IndicesInRange(model) == \A i \in 1..Len(model.voxels) : model.voxels[i][2] \in 1..255

\* the assembly conditions on one mesh
WellAssembled(mesh) ==
    /\ Len(mesh.vertices) % 4 = 0
    /\ Len(mesh.faces) = 2 * (Len(mesh.vertices) \div 4)
    /\ Len(mesh.face_colors) = Len(mesh.faces)
    /\ \A t \in 1..Len(mesh.faces) :
          /\ \A k \in 1..3 : mesh.faces[t][k] \in 0..(Len(mesh.vertices) - 1)
          /\ \A k \in 1..3 : mesh.faces[t][k] \div 4 = (t - 1) \div 2
          /\ DictHas(mesh.materials, mesh.face_colors[t])

\* C14: for a grid with indices in 1..255 each mesher returns a mesh in which
\* every triangle index is a position of the vertex list, there is one colour
\* per triangle, every quad is 4 vertices and 2 triangles over those 4
\* vertices, and every colour of a triangle is a key of materials.
MeshAssembly ==
    IndicesInRange(vox) =>
        /\ naive # << >> => WellAssembled(naive[1])
        /\ greedy # << >> => WellAssembled(greedy[1])

\* both meshes were generated for a grid of two colours, each with triangles of
\* both colours
MeshAssemblyWitness ==
    /\ naive # << >> /\ greedy # << >> /\ IndicesInRange(vox)
    /\ Len(greedy[1].materials) = 2 /\ Len(naive[1].materials) = 2
    /\ Len(greedy[1].faces) >= 4
    /\ \E t \in 1..Len(greedy[1].faces) : greedy[1].face_colors[t] = 255

AxisDirs == { << 1, 0, 0 >>, << -1, 0, 0 >>, << 0, 1, 0 >>, << 0, -1, 0 >>,
              << 0, 0, 1 >>, << 0, 0, -1 >> }

\* the (voxel, direction) pairs of a model whose neighbour is not in the map
Exposed(model) ==
    { e \in { << model.voxels[i], d >> : i \in 1..Len(model.voxels), d \in AxisDirs } :
        \A j \in 1..Len(model.voxels) :
            model.voxels[j][1] # << e[1][1][1] + e[2][1], e[1][1][2] + e[2][2],
                                    e[1][1][3] + e[2][3] >> }

\* the unit face of the voxel e[1] in direction e[2], as QuadUnitFaces gives it
ExposedFace(model, e) ==
    << VertexPos(model, << e[1][1][1] + Max(e[2][1], 0), e[1][1][2] + Max(e[2][2], 0),
                           e[1][1][3] + Max(e[2][3], 0) >>),
       e[2], e[1][2], e[1][2] >>

\* C15: the naive mesh holds exactly one quad for every stored voxel and axis
\* direction whose neighbouring coordinate is not in the map (whether inside
\* the extents or not), on that face of the voxel and of the voxel's colour,
\* and no other quad.
NaiveExposure ==
    naive # << >> =>
        /\ QuadCount(naive[1]) = Cardinality(Exposed(vox))
        /\ UnitFaces(naive[1]) = { ExposedFace(vox, e) : e \in Exposed(vox) }
        /\ \A q \in 0..(QuadCount(naive[1]) - 1) :
              Cardinality(QuadUnitFaces(naive[1], q)) = 1

\* the naive mesh of a grid that holds two neighbouring voxels, one of them
\* beyond the extents: 10 quads
NaiveExposureWitness ==
    /\ naive # << >>
    /\ vox.size_x = 1
    /\ Len(vox.voxels) = 2
    /\ vox.voxels[1][1] = << 0, 0, 0 >> /\ vox.voxels[2][1] = << 1, 0, 0 >>
    /\ QuadCount(naive[1]) = 10

\* two exposed faces of the same direction and colour on voxels that are
\* neighbours along an axis of the face's plane (so that they lie in the same
\* slice)
AdjacentExposed(model) ==
    \E e \in Exposed(model), f \in Exposed(model) :
        /\ e[2] = f[2]
        /\ e[1][2] = f[1][2]
        /\ \E d \in AxisDirs :
              /\ d[1] * e[2][1] + d[2] * e[2][2] + d[3] * e[2][3] = 0
              /\ f[1][1] = << e[1][1][1] + d[1], e[1][1][2] + d[2], e[1][1][3] + d[3] >>

\* C16: for a valid grid the greedy mesh never has more quads than the naive
\* mesh, and has fewer when two exposed faces of the same direction, slice and
\* colour are adjacent along an axis of the slice.
MeshMinimality ==
    (naive # << >> /\ greedy # << >> /\ ModelInContract(vox)) =>
        /\ QuadCount(greedy[1]) <= QuadCount(naive[1])
        /\ AdjacentExposed(vox) => QuadCount(greedy[1]) < QuadCount(naive[1])

\* both meshes of a valid grid of two neighbouring voxels of one colour: 10
\* naive quads, 6 greedy quads
MeshMinimalityWitness ==
    /\ naive # << >> /\ greedy # << >> /\ ModelInContract(vox)
    /\ Len(vox.voxels) = 2 /\ AdjacentExposed(vox)
    /\ QuadCount(naive[1]) = 10 /\ QuadCount(greedy[1]) = 6

\* the model with its voxels inserted in the opposite order
Reinserted(model) ==
    [model EXCEPT !.voxels = [k \in 1..Len(model.voxels) |->
                                 model.voxels[Len(model.voxels) + 1 - k]]]

\* where quad number q (from 0) of a mesh stands in the order of the passes:
\* the number of its direction in +X, -X, +Y, -Y, +Z, -Z (read off its winding),
\* its coordinate along the normal, and the least coordinates of its corners
\* along the u axis and the v axis of that direction
QuadKey(mesh, q) ==
    LET V == [k \in 1..4 |-> mesh.vertices[4 * q + k]]
        tri == mesh.faces[2 * q + 1]
        nrm == Cross(Minus(mesh.vertices[tri[2] + 1], mesh.vertices[tri[1] + 1]),
                     Minus(mesh.vertices[tri[3] + 1], mesh.vertices[tri[1] + 1]))
        lo(k) == Min(Min(V[1][k], V[2][k]), Min(V[3][k], V[4][k]))
        axis == IF nrm[1] # 0 THEN 1 ELSE IF nrm[2] # 0 THEN 2 ELSE 3
        u_axis == IF axis = 1 THEN 2 ELSE 1
        v_axis == IF axis = 3 THEN 2 ELSE 3
    IN  << 2 * axis - (IF nrm[axis] > 0 THEN 1 ELSE 0), lo(axis), lo(u_axis), lo(v_axis) >>

LexLess(a, b) ==
    \E k \in 1..4 : a[k] < b[k] /\ \A j \in 1..(k - 1) : a[j] = b[j]

\* C17: the greedy mesh is the mesh the greedy mesher returns for the same
\* extents, map and palette with the voxels inserted in another order (same
\* vertices, triangles and colours), and its quads stand in the order +X, -X,
\* +Y, -Y, +Z, -Z, then ascending slice, then ascending u, then ascending v of
\* the rectangle's origin.
GreedyDeterminism ==
    greedy # << >> =>
        /\ LET other == _generate_greedy_mesh(Reinserted(vox))
           IN  /\ greedy[1].vertices = other.vertices
               /\ greedy[1].faces = other.faces
               /\ greedy[1].face_colors = other.face_colors
        /\ \A q \in 0..(QuadCount(greedy[1]) - 2) :
              LexLess(QuadKey(greedy[1], q), QuadKey(greedy[1], q + 1))

\* the greedy mesh of a grid of three or more voxels of two colours, with
\* quads of more than one slice of a direction
GreedyDeterminismWitness ==
    /\ greedy # << >>
    /\ Len(vox.voxels) >= 3
    /\ vox.voxels[1][2] # vox.voxels[2][2]
    /\ Reinserted(vox).voxels # vox.voxels
    /\ \E q \in 0..(QuadCount(greedy[1]) - 2) :
          /\ QuadKey(greedy[1], q)[1] = QuadKey(greedy[1], q + 1)[1]
          /\ QuadKey(greedy[1], q)[2] < QuadKey(greedy[1], q + 1)[2]

\* the extent of quad number q (from 0) of a mesh along axis k, in voxels
QuadExtent(mesh, q, k) ==
    LET V == [c \in 1..4 |-> mesh.vertices[4 * q + c]]
    IN  (Max(Max(V[1][k], V[2][k]), Max(V[3][k], V[4][k]))
         - Min(Min(V[1][k], V[2][k]), Min(V[3][k], V[4][k]))) \div 2

\* the vertex lies on the grid of cell corners of the model's extents
InMaskRange(model, v) ==
    /\ v[1] \in (0 - model.size_x)..model.size_x
    /\ v[2] \in (0 - model.size_y)..model.size_y
    /\ v[3] \in 0..(2 * model.size_z)

MeshFields == { "vertices", "faces", "face_colors", "materials" }

\* C19: each mesher returns a mesh for every grid (grids with colour 0, with
\* keys beyond the extents and with extents 0 included); every rectangle of the
\* greedy mesh has a width and a height of at least 1, so that the scan moved
\* on by at least one cell, and lies within the mask of its slice; a grid with
\* no voxels gives a mesh with no vertices, no triangles and no materials.
MesherTotality ==
    /\ (pc = "done" /\ ret = "model" /\ naive = << >> /\ greedy = << >>) =>
          /\ DOMAIN _generate_naive_mesh(vox) = MeshFields
          /\ DOMAIN _generate_greedy_mesh(vox) = MeshFields
    /\ greedy # << >> =>
          /\ \A q \in 0..(QuadCount(greedy[1]) - 1) :
                /\ Cardinality({ k \in 1..3 : QuadExtent(greedy[1], q, k) = 0 }) = 1
                /\ Cardinality({ k \in 1..3 : QuadExtent(greedy[1], q, k) >= 1 }) = 2
          /\ \A i \in 1..Len(greedy[1].vertices) : InMaskRange(vox, greedy[1].vertices[i])
          /\ vox.voxels = << >> => greedy[1] = EmptyMesh
    /\ (naive # << >> /\ vox.voxels = << >>) => naive[1] = EmptyMesh

\* both meshers have returned for a grid without voxels, and (in another
\* state) for a grid of extents 0 that holds voxels
MesherTotalityWitness ==
    /\ naive # << >> /\ greedy # << >>
    /\ vox.voxels = << >> /\ vox.size_x = 2
    /\ naive[1].vertices = << >> /\ greedy[1].materials = << >>

MesherTotalityStrayWitness ==
    /\ naive # << >> /\ greedy # << >>
    /\ vox.size_x = 0 /\ Len(vox.voxels) = 3
    /\ \E i \in 1..3 : vox.voxels[i][2] = 0

(***************************************************************************)
(* SpecPasses: the six direction passes of _generate_greedy_mesh (the body *)
(* of the loop of line 207) run side by side, one step of one pass at a    *)
(* time, on the lists of lines 173-176.  A pass is a record                *)
(*   [pc, n, k, base_idx]                                                  *)
(* n its slice, k the number of the rectangle of the slice it is emitting, *)
(* base_idx its local of line 288.  The mask of a slice is local to the    *)
(* pass; building it and registering its colours is one step, and so is    *)
(* the loop that appends the four vertices of a rectangle.  The passes are *)
(* taken in the order of directions by MaxWorkers workers.                 *)
(***************************************************************************)
MaxWorkers == 2

PassModels ==
    { VoxModel(<< 1, 1, 1 >>, { << 0, 0, 0 >> }, [c \in { << 0, 0, 0 >> } |-> 1]),
      VoxModel(<< 2, 1, 1 >>, { << 0, 0, 0 >>, << 1, 0, 0 >> },
               [c \in { << 0, 0, 0 >>, << 1, 0, 0 >> } |-> 1]) }

InitPasses ==
    /\ vox \in PassModels
    /\ last = << "model" >>
    /\ size_x = 1 /\ size_y = 1 /\ size_z = 1
    /\ voxels = << >>
    /\ prev = << >>
    /\ nops = 0
    /\ file = << >>
    /\ pc = "done" /\ pos = 0 /\ end_pos = 0 /\ nchunks = 0
    /\ chunk_pos = 0 /\ ret = "model"
    /\ naive = << >> /\ greedy = << >>
    /\ passes = [d \in 1..Len(directions) |-> [pc |-> "idle", n |-> 0, k |-> 0, base_idx |-> 0]]
    /\ shared = EmptyMesh
    /\ closest = 0 /\ line = << >> /\ ctl = << >>

PassUnchanged == UNCHANGED << gridVars, file, readVars, meshVars, auxVars >>

\* lines 207-211: a free worker takes the next direction
PassStart(d) ==
    /\ passes[d].pc = "idle"
    /\ \A e \in 1..(d - 1) : passes[e].pc # "idle"
    /\ Cardinality({ e \in 1..Len(directions) : passes[e].pc \notin { "idle", "done" } })
           < MaxWorkers
    /\ passes' = [passes EXCEPT ![d].pc = "mask"]
    /\ UNCHANGED shared
    /\ PassUnchanged

\* lines 213-240: the next slice of the pass, its mask and the registration of
\* the colours of the mask; the pass ends after its last slice
PassMask(d) ==
    /\ passes[d].pc = "mask"
    /\ IF passes[d].n >= get_axis_size(vox, directions[d][1])
       THEN /\ passes' = [passes EXCEPT ![d].pc = "done"]
            /\ UNCHANGED shared
       ELSE /\ shared' = [shared EXCEPT !.materials =
                              RegisterAll(vox, [i \in 1..Len(shared.materials) |->
                                                   shared.materials[i][1]]
                                               \o SliceColors(vox, directions[d], passes[d].n))]
            /\ passes' = [passes EXCEPT ![d] =
                              IF SliceQuads(vox, directions[d], passes[d].n) = << >>
                              THEN [@ EXCEPT !.n = @ + 1]
                              ELSE [@ EXCEPT !.pc = "base", !.k = 1]]
    /\ PassUnchanged

\* line 288: base_idx = len(vertices)
PassBase(d) ==
    /\ passes[d].pc = "base"
    /\ passes' = [passes EXCEPT ![d].pc = "verts", ![d].base_idx = Len(shared.vertices)]
    /\ UNCHANGED shared
    /\ PassUnchanged

\* lines 289-294: the four vertices.append calls
PassVerts(d) ==
    /\ passes[d].pc = "verts"
    /\ LET quad == SliceQuads(vox, directions[d], passes[d].n)[passes[d].k]
       IN  shared' = [shared EXCEPT !.vertices =
                         shared.vertices \o [c \in 1..4 |-> VertexPos(vox, quad.corners[c])]]
    /\ passes' = [passes EXCEPT ![d].pc = "faces"]
    /\ PassUnchanged

\* lines 297-302: the two faces.append calls
PassFaces(d) ==
    /\ passes[d].pc = "faces"
    /\ LET b == passes[d].base_idx
       IN  shared' = [shared EXCEPT !.faces =
                         shared.faces \o
                         (IF directions[d][5]
                          THEN << << b, b + 3, b + 2 >>, << b, b + 2, b + 1 >> >>
                          ELSE << << b, b + 1, b + 2 >>, << b, b + 2, b + 3 >> >>)]
    /\ passes' = [passes EXCEPT ![d].pc = "colors"]
    /\ PassUnchanged

\* lines 304-307: the two face_colors.append calls and v += width: the next
\* rectangle of the slice, or the next slice
PassColors(d) ==
    /\ passes[d].pc = "colors"
    /\ LET quads == SliceQuads(vox, directions[d], passes[d].n)
           color == quads[passes[d].k].color
       IN  /\ shared' = [shared EXCEPT !.face_colors = shared.face_colors \o << color, color >>]
           /\ passes' = [passes EXCEPT ![d] =
                             IF passes[d].k < Len(quads)
                             THEN [@ EXCEPT !.pc = "base", !.k = @ + 1]
                             ELSE [@ EXCEPT !.pc = "mask", !.n = @ + 1, !.k = 0]]
    /\ PassUnchanged

NextPasses ==
    \E d \in 1..Len(directions) :
        PassStart(d) \/ PassMask(d) \/ PassBase(d) \/ PassVerts(d) \/ PassFaces(d) \/ PassColors(d)

SpecPasses == InitPasses /\ [][NextPasses]_vars

(***************************************************************************)
(* Properties of SpecPasses.                                               *)
(***************************************************************************)
AllPassesDone == passes # << >> /\ \A d \in 1..Len(directions) : passes[d].pc = "done"

\* the triangles of a mesh with their indices resolved: three positions and a
\* colour
ResolvedTriangles(mesh) ==
    { << mesh.vertices[mesh.faces[t][1] + 1], mesh.vertices[mesh.faces[t][2] + 1],
         mesh.vertices[mesh.faces[t][3] + 1], mesh.face_colors[t] >> :
      t \in 1..Len(mesh.faces) }

\* C18: when the six direction passes have run side by side, in whatever
\* interleaving of their steps, the lists hold the quads of the passes run one
\* after another: valid triangle indices, a colour for every triangle, the same
\* triangles (positions and colour) and the same materials.
PassIndependence ==
    AllPassesDone =>
        LET seq == _generate_greedy_mesh(vox)
        IN  /\ Len(shared.face_colors) = Len(shared.faces)
            /\ \A t \in 1..Len(shared.faces) :
                  \A k \in 1..3 : shared.faces[t][k] \in 0..(Len(shared.vertices) - 1)
            /\ ResolvedTriangles(shared) = ResolvedTriangles(seq)
            /\ DictPairs(shared.materials) = DictPairs(seq.materials)

\* the cells a model holds
ModelCells(model) == { model.voxels[i][1] : i \in 1..Len(model.voxels) }

\* number of cells the model's voxels span along axis k
BoxDim(model, k) ==
    LET ks == { c[k] : c \in ModelCells(model) }
    IN  (CHOOSE hi \in ks : \A e \in ks : e <= hi)
        - (CHOOSE lo \in ks : \A e \in ks : lo <= e) + 1

\* the grid holds exactly one solid axis-aligned box of a single material
IsSolidBox(model) ==
    /\ Len(model.voxels) > 0
    /\ ModelInContract(model)
    /\ \A i \in 1..Len(model.voxels) : model.voxels[i][2] = model.voxels[1][2]
    /\ Len(model.voxels) = BoxDim(model, 1) * BoxDim(model, 2) * BoxDim(model, 3)

\* direction the first triangle of quad q (from 0) faces
QuadNormal(mesh, q) ==
    LET tri == mesh.faces[2 * q + 1]
        nrm == Cross(Minus(mesh.vertices[tri[2] + 1], mesh.vertices[tri[1] + 1]),
                     Minus(mesh.vertices[tri[3] + 1], mesh.vertices[tri[1] + 1]))
    IN  << Sgn(nrm[1]), Sgn(nrm[2]), Sgn(nrm[3]) >>

\* C22: for a grid holding exactly one solid box of a x b x c voxels of one
\* material, the naive mesh has 2(ab + bc + ca) quads and the greedy mesh has
\* 6 quads in 12 triangles, one facing each of the six directions, and every
\* triangle of both meshes carries the box's palette index; one voxel gives 6
\* quads from both meshers, two adjacent voxels give 10 naive quads and fewer
\* than 10 greedy quads.
SolidBoxCounts ==
    IsSolidBox(vox) =>
        LET a == BoxDim(vox, 1)
            b == BoxDim(vox, 2)
            c == BoxDim(vox, 3)
            index == vox.voxels[1][2]
        IN  /\ naive # << >> =>
                  /\ QuadCount(naive[1]) = 2 * (a * b + b * c + c * a)
                  /\ Len(naive[1].faces) = 2 * QuadCount(naive[1])
                  /\ \A t \in 1..Len(naive[1].face_colors) : naive[1].face_colors[t] = index
                  /\ Len(vox.voxels) = 1 => QuadCount(naive[1]) = 6
                  /\ Len(vox.voxels) = 2 => QuadCount(naive[1]) = 10
            /\ greedy # << >> =>
                  /\ QuadCount(greedy[1]) = 6
                  /\ Len(greedy[1].faces) = 12
                  /\ { QuadNormal(greedy[1], q) : q \in 0..5 } = AxisDirs
                  /\ Len(greedy[1].face_colors) = 12
                  /\ \A t \in 1..Len(greedy[1].face_colors) : greedy[1].face_colors[t] = index
                  /\ DictKeys(greedy[1].materials) = { index }

\* both meshes of a box of 2 x 2 x 1 voxels of index 255: 16 naive quads, 6
\* greedy quads
SolidBoxCountsWitness ==
    /\ IsSolidBox(vox)
    /\ BoxDim(vox, 1) = 2 /\ BoxDim(vox, 2) = 2 /\ BoxDim(vox, 3) = 1
    /\ vox.voxels[1][2] = 255
    /\ naive # << >> /\ QuadCount(naive[1]) = 16
    /\ greedy # << >> /\ QuadCount(greedy[1]) = 6

\* the unit vector a direction pass faces
DirVector(dir) == [k \in 1..3 |-> IF k = AxisIndex(dir[1]) THEN dir[4] ELSE 0]

\* the cell corner a vertex of the model's mesh stands on
CellCorner(model, vtx) ==
    << (vtx[1] + model.size_x) \div 2, (vtx[2] + model.size_y) \div 2, vtx[3] \div 2 >>

\* quad q (from 0) of a greedy mesh as the rectangle of its pass: number d of
\* the direction, slice n, first cell (u, v), height along u and width along v
QuadRect(model, mesh, q) ==
    LET nrm == QuadNormal(mesh, q)
        d == CHOOSE i \in 1..Len(directions) : DirVector(directions[i]) = nrm
        dir == directions[d]
        C == [k \in 1..4 |-> CellCorner(model, mesh.vertices[4 * q + k])]
        lo(axis) == Min(Min(C[1][AxisIndex(axis)], C[2][AxisIndex(axis)]),
                        Min(C[3][AxisIndex(axis)], C[4][AxisIndex(axis)]))
        hi(axis) == Max(Max(C[1][AxisIndex(axis)], C[2][AxisIndex(axis)]),
                        Max(C[3][AxisIndex(axis)], C[4][AxisIndex(axis)]))
    IN  [d |-> d,
         n |-> IF dir[4] > 0 THEN lo(dir[1]) - 1 ELSE lo(dir[1]),
         u |-> lo(dir[2]), v |-> lo(dir[3]),
         height |-> hi(dir[2]) - lo(dir[2]),
         width |-> hi(dir[3]) - lo(dir[3]),
         color |-> mesh.face_colors[2 * q + 1]]

\* the rectangle covers mask cell c = <<u, v>> of its slice
Covers(r, c) ==
    /\ r.u <= c[1] /\ c[1] < r.u + r.height
    /\ r.v <= c[2] /\ c[2] < r.v + r.width

\* C25: within each direction and slice every rectangle of the greedy mesh
\* covers only cells holding a voxel of the rectangle's palette index whose
\* neighbour in the direction is absent (no empty cell, no second material);
\* no cell is covered by two rectangles; and the rectangle was maximal when it
\* was extracted: in the mask without the rectangles extracted before it, the
\* cell past its width in row u does not match, and the row past its height
\* does not match across the whole width.
RectanglesWellFormed ==
    greedy # << >> =>
        LET mesh == greedy[1]
            R == SubSeq([q \in 1..QuadCount(mesh) |-> QuadRect(vox, mesh, q - 1)],
                        1, QuadCount(mesh))
            Same(p, q) == R[p].d = R[q].d /\ R[p].n = R[q].n
            MaskAt(q, c) ==
                IF \E p \in 1..(q - 1) : Same(p, q) /\ Covers(R[p], c) THEN 0
                ELSE MaskValue(vox, directions[R[q].d], R[q].n, c[1], c[2])
        IN  \A q \in 1..QuadCount(mesh) :
                LET r == R[q]
                    dir == directions[r.d]
                    u_size == get_axis_size(vox, dir[2])
                    v_size == get_axis_size(vox, dir[3])
                    cells == (r.u..(r.u + r.height - 1)) \X (r.v..(r.v + r.width - 1))
                IN  /\ r.height >= 1 /\ r.width >= 1 /\ r.color # 0
                    /\ mesh.face_colors[2 * q] = r.color
                    /\ r.n \in 0..(get_axis_size(vox, dir[1]) - 1)
                    /\ r.u >= 0 /\ r.u + r.height <= u_size
                    /\ r.v >= 0 /\ r.v + r.width <= v_size
                    /\ \A c \in cells :
                          LET cell == make_pos(r.n, c[1], c[2], dir[1], dir[2], dir[3])
                              neighbor == make_pos(r.n + dir[4], c[1], c[2],
                                                   dir[1], dir[2], dir[3])
                          IN  /\ DictHas(vox.voxels, cell)
                              /\ DictGet(vox.voxels, cell) = r.color
                              /\ ~ DictHas(vox.voxels, neighbor)
                    /\ \A p \in 1..(q - 1) :
                          Same(p, q) => \A c \in cells : ~ Covers(R[p], c)
                    /\ \/ r.v + r.width = v_size
                       \/ MaskAt(q, << r.u, r.v + r.width >>) # r.color
                    /\ \/ r.u + r.height = u_size
                       \/ \E k \in 0..(r.width - 1) :
                             MaskAt(q, << r.u + r.height, r.v + k >>) # r.color

\* a greedy mesh with a rectangle two cells high that stopped at a face of the
\* other palette index in the next row
RectanglesWellFormedWitness ==
    /\ greedy # << >>
    /\ ModelInContract(vox)
    /\ \E q \in 0..(QuadCount(greedy[1]) - 1) :
          LET r == QuadRect(vox, greedy[1], q)
              dir == directions[r.d]
          IN  /\ r.height = 2
              /\ r.u + r.height < get_axis_size(vox, dir[2])
              /\ MaskValue(vox, dir, r.n, r.u + r.height, r.v) \notin { 0, r.color }

\* sign vector of (v1 - v0) x (v2 - v0) for triangle t (from 1) of a mesh
TriNormal(mesh, t) ==
    LET tri == mesh.faces[t]
        nrm == Cross(Minus(mesh.vertices[tri[2] + 1], mesh.vertices[tri[1] + 1]),
                     Minus(mesh.vertices[tri[3] + 1], mesh.vertices[tri[1] + 1]))
    IN  << Sgn(nrm[1]), Sgn(nrm[2]), Sgn(nrm[3]) >>

\* the cells whose face towards nrm quad q (from 0) of the mesh covers
CellsBehind(model, mesh, q, nrm) ==
    LET C == SubSeq([k \in 1..4 |-> CellCorner(model, mesh.vertices[4 * q + k])], 1, 4)
        lo(k) == Min(Min(C[1][k], C[2][k]), Min(C[3][k], C[4][k]))
        hi(k) == Max(Max(C[1][k], C[2][k]), Max(C[3][k], C[4][k]))
        span(k) == IF nrm[k] > 0 THEN { lo(k) - 1 }
                   ELSE IF nrm[k] < 0 THEN { lo(k) }
                   ELSE lo(k)..(hi(k) - 1)
    IN  span(1) \X span(2) \X span(3)

\* both triangles of every quad of the mesh face the same axis direction, the
\* quad is flat across it, and that direction leads from the voxels the quad
\* bounds to cells that hold none
Outward(model, mesh) ==
    \A q \in 0..(QuadCount(mesh) - 1) :
        LET nrm == TriNormal(mesh, 2 * q + 1)
        IN  /\ nrm \in AxisDirs
            /\ TriNormal(mesh, 2 * q + 2) = nrm
            /\ \A k \in 1..3 : nrm[k] # 0 => QuadExtent(mesh, q, k) = 0
            /\ CellsBehind(model, mesh, q, nrm) # { }
            /\ \A c \in CellsBehind(model, mesh, q, nrm) :
                  /\ DictHas(model.voxels, c)
                  /\ ~ DictHas(model.voxels, Plus(c, nrm))

\* C26: for every triangle of the naive mesh and of the greedy mesh the cross
\* product (v1 - v0) x (v2 - v0) points along the direction of the face the
\* triangle belongs to: away from the voxels behind the quad, towards the cells
\* without a voxel, for all six directions and every rectangle size.
OutwardWinding ==
    /\ naive # << >> => Outward(vox, naive[1])
    /\ greedy # << >> => Outward(vox, greedy[1])

\* a greedy mesh with a quad towards each of the six directions, one of them
\* two cells by two cells, and the naive mesh of the same grid
OutwardWindingWitness ==
    /\ naive # << >> /\ greedy # << >>
    /\ { TriNormal(greedy[1], t) : t \in 1..Len(greedy[1].faces) } = AxisDirs
    /\ { TriNormal(naive[1], t) : t \in 1..Len(naive[1].faces) } = AxisDirs
    /\ \E q \in 0..(QuadCount(greedy[1]) - 1) :
          Cardinality(CellsBehind(vox, greedy[1], q, TriNormal(greedy[1], 2 * q + 1))) = 4

\* C28: for every model read_vox returned from a file it accepted (records of
\* colour index 0, records outside the SIZE extents and files without a SIZE
\* chunk included), the rectangles of the greedy mesh, expanded into unit
\* faces, are the same set of faces (position, palette index, direction) as
\* the naive mesh holds.
ReadThenMesh ==
    (last[1] = "file" /\ naive # << >> /\ greedy # << >>) =>
        UnitFaces(greedy[1]) = UnitFaces(naive[1])

\* the meshes generated so far
MeshesMade ==
    (IF naive = << >> THEN { } ELSE { naive[1] })
    \cup (IF greedy = << >> THEN { } ELSE { greedy[1] })

\* the palette bytes save wrote hold 256 entries: the RGBA of the material
\* named m at slot PALETTE_INDEX[m] - 1, and (i * 255) // 256 three times with
\* alpha 255 at every slot i past the named materials
WriterPalette ==
    LET bytes == Read(file, Len(file) - 4 * 256, 4 * 256)
        entry(i) == << bytes[4 * i + 1], bytes[4 * i + 2], bytes[4 * i + 3], bytes[4 * i + 4] >>
    IN  /\ Read(file, Len(file) - 4 * 256 - 12, 12) = TagRGBA \o PackU32(4 * 256) \o PackU32(0)
        /\ Len(_build_palette) = 4 * 256
        /\ bytes = _build_palette
        /\ \A k \in 1..Len(PALETTE) : entry(PALETTE_INDEX(PALETTE[k][1]) - 1) = PALETTE[k][2]
        /\ \A i \in Len(PALETTE)..255 :
              entry(i) = << (i * 255) \div 256, (i * 255) \div 256, (i * 255) \div 256, 255 >>

\* C29: the palette save writes has exactly 256 entries, the material named m
\* at slot PALETTE_INDEX[m] - 1 and the gray ramp (i * 255) // 256 with alpha
\* 255 past the named materials; both meshers register for every stored index
\* v in 1..255 the entry palette[v - 1] of the model; so a voxel placed by a
\* material name, saved, read and meshed carries exactly the RGBA of that
\* material.
PaletteConvention ==
    /\ last[1] = "named" => WriterPalette
    /\ \A mesh \in MeshesMade :
          /\ \A i \in 1..Len(mesh.materials) :
                LET v == mesh.materials[i][1]
                IN  v \in 1..255 => mesh.materials[i][2] = vox.palette[(v - 1) + 1]
          /\ \A t \in 1..Len(mesh.face_colors) : DictHas(mesh.materials, mesh.face_colors[t])
    /\ naive # << >> =>
          \A i \in 1..Len(vox.voxels) : DictHas(naive[1].materials, vox.voxels[i][2])
    /\ last[1] = "named" =>
          LET index == PALETTE_INDEX(last[2])
              rgba == PALETTE[index][2]
          IN  /\ vox.voxels = << << last[3], index >> >>
              /\ \A mesh \in MeshesMade :
                    /\ mesh.materials = << << index, rgba >> >>
                    /\ Len(mesh.face_colors) = 12
                    /\ \A t \in 1..12 : mesh.face_colors[t] = index

\* a voxel placed as "power" at (1, 1, 1), saved, read and meshed by both
\* meshers with the material (51, 102, 204, 255)
PaletteConventionWitness ==
    /\ last = << "named", "power", << 1, 1, 1 >> >>
    /\ naive # << >> /\ greedy # << >>
    /\ naive[1].materials = << << 17, << 51, 102, 204, 255 >> >> >>
    /\ greedy[1].materials = naive[1].materials

(***************************************************************************)
(* Specification SpecLine: draw_line step by step.  line holds the locals  *)
(* of the call: pc, the branch taken (axis 1, 2 or 3 for x, y or z), the   *)
(* running point p = <<x1, y1, z1>>, the two error terms e of the branch,  *)
(* the number of loop iterations made and the points passed to set_voxel.  *)
(***************************************************************************)
MaxLine == 2

LineFrom == { << 0, 0, 0 >>, << 1, 0, 1 >> }

LineTo == ((0 - MaxLine)..MaxLine) \X ((0 - MaxLine)..MaxLine) \X ((0 - MaxLine)..MaxLine)

InitLine ==
    /\ last \in { << "draw_line", << a, b >>, << "int", 1 >> >> : a \in LineFrom, b \in LineTo }
    /\ size_x = 2 /\ size_y = 2 /\ size_z = 2
    /\ voxels = << >>
    /\ prev = << >>
    /\ nops = 0
    /\ file = << >>
    /\ ReaderIdle
    /\ naive = << >> /\ greedy = << >>
    /\ passes = << >> /\ shared = << >>
    /\ closest = 0 /\ ctl = << >>
    /\ line = [pc |-> "call"]

LineUnchanged ==
    UNCHANGED << size_x, size_y, size_z, nops, last, prev, file, readVars, meshVars,
                 passVars, closest, ctl >>

\* the branch that always runs along x
LineBranch_always_x(dx, dy, dz) == 1

\* lines 136, 149, 161: the branch draw_line takes
LineBranch(dx, dy, dz) ==
    IF dx >= dy /\ dx >= dz THEN 1 ELSE IF dy >= dx /\ dy >= dz THEN 2 ELSE 3

\* the two axes a branch steps by its error terms, in the order of the code
LineOthers(axis) == IF axis = 1 THEN << 2, 3 >> ELSE IF axis = 2 THEN << 1, 3 >> ELSE << 1, 2 >>

LineDelta(what) == [k \in 1..3 |-> Abs(what[2][2][k] - what[2][1][k])]

LineSign(what) == [k \in 1..3 |-> IF what[2][1][k] < what[2][2][k] THEN 1 ELSE -1]

\* lines 130-137, 150, 162: the locals before the loop
LineEnter ==
    /\ line.pc = "call"
    /\ LET dd == LineDelta(last)
           axis == LineBranch(dd[1], dd[2], dd[3])
           o == LineOthers(axis)
       IN  line' = [pc |-> "loop", axis |-> axis, p |-> last[2][1],
                    e |-> << 2 * dd[o[1]] - dd[axis], 2 * dd[o[2]] - dd[axis] >>,
                    steps |-> 0, visited |-> << >>,
                    color_index |-> _resolve_color(last[3])]
    /\ UNCHANGED voxels
    /\ LineUnchanged

\* lines 138-148, 151-160, 163-174: one iteration of the while loop
LineStep ==
    /\ line.pc = "loop"
    /\ line.p[line.axis] # last[2][2][line.axis]
    /\ LET dd == LineDelta(last)
           ss == LineSign(last)
           a == line.axis
           o == LineOthers(a)
           q == [k \in 1..3 |->
                   IF k = a THEN line.p[k] + ss[k]
                   ELSE IF k = o[1] THEN (IF line.e[1] > 0 THEN line.p[k] + ss[k] ELSE line.p[k])
                   ELSE (IF line.e[2] > 0 THEN line.p[k] + ss[k] ELSE line.p[k])]
           e1 == (IF line.e[1] > 0 THEN line.e[1] - 2 * dd[a] ELSE line.e[1]) + 2 * dd[o[1]]
           e2 == (IF line.e[2] > 0 THEN line.e[2] - 2 * dd[a] ELSE line.e[2]) + 2 * dd[o[2]]
       IN  /\ voxels' = set_voxel(voxels, line.p[1], line.p[2], line.p[3], line.color_index)
           /\ line' = [line EXCEPT !.p = q, !.e = << e1, e2 >>,
                                   !.steps = line.steps + 1,
                                   !.visited = Append(line.visited, line.p)]
    /\ LineUnchanged

\* line 175: self.set_voxel(x2, y2, z2, color_index), the loop having ended
LineLast ==
    /\ line.pc = "loop"
    /\ line.p[line.axis] = last[2][2][line.axis]
    /\ voxels' = set_voxel(voxels, last[2][2][1], last[2][2][2], last[2][2][3],
                           line.color_index)
    /\ line' = [line EXCEPT !.pc = "done", !.visited = Append(line.visited, last[2][2])]
    /\ LineUnchanged

NextLine == LineEnter \/ LineStep \/ LineLast

SpecLine == InitLine /\ [][NextLine]_vars

\* C27: draw_line makes exactly max(|dx|, |dy|, |dz|) iterations of its loop
\* (never more, and the loop ends with that count); when the loop has ended the
\* running point is (x2, y2, z2); every point passed to set_voxel lies in the
\* bounding box of the endpoints and differs from the one before it by at most
\* 1 on each axis; both endpoints are passed to set_voxel.
LinePath ==
    (last[1] = "draw_line" /\ line # << >> /\ line.pc # "call") =>
        LET from == last[2][1]
            to == last[2][2]
            dd == LineDelta(last)
            longest == Max(dd[1], Max(dd[2], dd[3]))
            InBox(c) == \A k \in 1..3 : /\ Min(from[k], to[k]) <= c[k]
                                        /\ c[k] <= Max(from[k], to[k])
            v == line.visited
        IN  /\ line.steps <= longest
            /\ Len(v) = line.steps + (IF line.pc = "done" THEN 1 ELSE 0)
            /\ InBox(line.p)
            /\ \A i \in 1..Len(v) : InBox(v[i])
            /\ \A i \in 2..Len(v) : \A k \in 1..3 : Abs(v[i][k] - v[i - 1][k]) <= 1
            /\ line.p[line.axis] = to[line.axis] =>
                  /\ line.steps = longest
                  /\ line.p = to
            /\ line.pc = "done" =>
                  /\ v[1] = from
                  /\ v[Len(v)] = to
                  /\ v = LineCells(from[1], from[2], from[3], to[1], to[2], to[3])
                  /\ voxels = draw_line(<< >>, from[1], from[2], from[3],
                                        to[1], to[2], to[3], last[3])

\* a call from (1, 0, 1) to (-1, 2, 2) has returned: two iterations along x, the
\* first of three axes of greatest length, and three points passed to set_voxel
LinePathWitness ==
    /\ last[1] = "draw_line"
    /\ last[2] = << << 1, 0, 1 >>, << -1, 2, 2 >> >>
    /\ line.pc = "done"
    /\ line.axis = 1 /\ line.steps = 2 /\ Len(line.visited) = 3

(***************************************************************************)
(* Specification SpecColor: _find_closest_palette_index applied to one     *)
(* RGBA tuple.  The channel values hold the channels of the entries iron,  *)
(* frame, power and active, values between them and both ends of the byte  *)
(* range; alpha is transparent or opaque.                                  *)
(***************************************************************************)
ChannelArgs == {0, 51, 102, 115, 120, 153, 204, 255}

AlphaArgs == {0, 255}

RgbaArgs == { << r, g, b, a >> : r \in ChannelArgs, g \in ChannelArgs,
                                 b \in ChannelArgs, a \in AlphaArgs }

InitColor ==
    /\ last \in { << "rgba", c >> : c \in RgbaArgs }
    /\ size_x = 1 /\ size_y = 1 /\ size_z = 1
    /\ voxels = << >>
    /\ prev = << >>
    /\ nops = 0
    /\ file = << >>
    /\ ReaderIdle
    /\ naive = << >> /\ greedy = << >>
    /\ passes = << >> /\ shared = << >>
    /\ closest = 0 /\ line = << >> /\ ctl = << >>

\* self._find_closest_palette_index(color), the tuple branch of _resolve_color
FindClosest ==
    /\ last[1] = "rgba"
    /\ closest = 0
    /\ closest' = _find_closest_palette_index(last[2])
    /\ UNCHANGED << gridVars, file, readVars, meshVars, passVars, line, ctl >>

NextColor == FindClosest

SpecColor == InitColor /\ [][NextColor]_vars

\* sum((a - b) ** 2 for a, b in zip(rgba[:3], color[:3])) for entry i of PALETTE
ColorDist(rgba, i) ==
    LET color == PALETTE[i][2]
    IN  (rgba[1] - color[1]) * (rgba[1] - color[1])
      + (rgba[2] - color[2]) * (rgba[2] - color[2])
      + (rgba[3] - color[3]) * (rgba[3] - color[3])

\* C21: the index _find_closest_palette_index returns for an RGBA tuple names
\* an entry of PALETTE whose summed squared difference over R, G, B is minimal
\* among all entries of PALETTE; every earlier entry is strictly farther, so
\* of several nearest entries the first in palette order is returned; a tuple
\* whose R, G, B equal an entry's returns that entry; the same R, G, B with
\* another alpha gives the same index.
NearestColour ==
    (last[1] = "rgba" /\ closest # 0) =>
        LET rgba == last[2]
        IN  /\ closest \in 1..Len(PALETTE)
            /\ \A j \in 1..Len(PALETTE) : ColorDist(rgba, closest) <= ColorDist(rgba, j)
            /\ \A j \in 1..(closest - 1) : ColorDist(rgba, j) > ColorDist(rgba, closest)
            /\ \A j \in 1..Len(PALETTE) : ColorDist(rgba, j) = 0 => closest = j
            /\ \A a \in AlphaArgs :
                  _find_closest_palette_index(<< rgba[1], rgba[2], rgba[3], a >>) = closest

\* a transparent tuple at the same distance from power and active resolved to
\* power, the earlier of the two
NearestColourWitness ==
    /\ last = << "rgba", << 51, 153, 153, 0 >> >>
    /\ closest = PALETTE_INDEX("power")
    /\ ColorDist(last[2], PALETTE_INDEX("power")) = ColorDist(last[2], PALETTE_INDEX("active"))

(***************************************************************************)
(* Specification SpecCtl: IterationController in the loop of its Usage     *)
(* note.  A score is <<"num", n>> with n in tenths of a point, or          *)
(* <<"nan", 0>> for float('nan'), with which every comparison is False.    *)
(* ctl holds the controller's iterations (records of iteration and score) *)
(* and success_threshold, the driver's pc, what should_continue returned   *)
(* before the first record_iteration (first) and at its last call          *)
(* (answer), both << >> while there was no such call.                      *)
(***************************************************************************)
MAX_ITERATIONS == 5

EARLY_EXIT_THRESHOLD == 90

IMPROVEMENT_THRESHOLD == 5

STAGNATION_CHECK_WINDOW == 3

\* the driver stops calling record_iteration at this many records
MaxRecorded == 6

NaN == << "nan", 0 >>

Num(n) == << "num", n >>

ScoreArgs == { Num(50), Num(52), Num(58), Num(95), NaN }

ThresholdArgs == { Num(75), Num(100), NaN }

\* a >= b, a > b, a < b on floats
FloatGe(a, b) == a[1] = "num" /\ b[1] = "num" /\ a[2] >= b[2]
FloatGt(a, b) == a[1] = "num" /\ b[1] = "num" /\ a[2] > b[2]
FloatLt(a, b) == a[1] = "num" /\ b[1] = "num" /\ a[2] < b[2]

\* a - b on floats
FloatSub(a, b) == IF a[1] = "num" /\ b[1] = "num" THEN Num(a[2] - b[2]) ELSE NaN

\* max(seq) and min(seq) of Python: the first item, replaced by each later item
\* that compares greater (less)
RECURSIVE PyMax(_, _, _)
PyMax(seq, i, best) ==
    IF i > Len(seq) THEN best
    ELSE PyMax(seq, i + 1, IF FloatGt(seq[i], best) THEN seq[i] ELSE best)

RECURSIVE PyMin(_, _, _)
PyMin(seq, i, best) ==
    IF i > Len(seq) THEN best
    ELSE PyMin(seq, i + 1, IF FloatLt(seq[i], best) THEN seq[i] ELSE best)

\* should_continue that stops only when more than max_iterations are recorded
should_continue_past_max(c) ==
    LET n == Len(c.iterations)
    IN  IF n = 0 THEN << TRUE, "FIRST" >>
        ELSE IF FloatGe(c.iterations[n].score, c.success_threshold) THEN << FALSE, "SUCCESS" >>
        ELSE IF FloatGe(c.iterations[n].score, Num(EARLY_EXIT_THRESHOLD))
             THEN << FALSE, "EARLY_EXIT" >>
        ELSE IF n > c.max_iterations THEN << FALSE, "MAX_ITERATIONS" >>
        ELSE << TRUE, "CONTINUE" >>

\* IterationController.should_continue: (continue?, first word of the reason)
should_continue(c) ==
    LET n == Len(c.iterations)
        score == c.iterations[n].score
        recent_scores == [k \in 1..STAGNATION_CHECK_WINDOW |->
                             c.iterations[n - STAGNATION_CHECK_WINDOW + k].score]
        score_range == FloatSub(PyMax(recent_scores, 2, recent_scores[1]),
                                PyMin(recent_scores, 2, recent_scores[1]))
    IN  IF n = 0 THEN << TRUE, "FIRST" >>
        ELSE IF FloatGe(score, c.success_threshold) THEN << FALSE, "SUCCESS" >>
        ELSE IF FloatGe(score, Num(EARLY_EXIT_THRESHOLD)) THEN << FALSE, "EARLY_EXIT" >>
        ELSE IF n >= c.max_iterations THEN << FALSE, "MAX_ITERATIONS" >>
        ELSE IF n >= STAGNATION_CHECK_WINDOW
                /\ FloatLt(score_range, Num(IMPROVEMENT_THRESHOLD))
             THEN << FALSE, "STAGNATION" >>
        ELSE << TRUE, "CONTINUE" >>

\* IterationController.record_iteration
record_iteration(c, score) ==
    [c EXCEPT !.iterations = Append(c.iterations,
                                    [iteration |-> Len(c.iterations) + 1, score |-> score])]

\* controller = IterationController(challenge)
InitCtl ==
    /\ \E t \in ThresholdArgs :
          /\ last = << "controller", t >>
          /\ ctl = [pc |-> "new", iterations |-> << >>, max_iterations |-> MAX_ITERATIONS,
                    success_threshold |-> t, first |-> << >>, answer |-> << >>]
    /\ size_x = 1 /\ size_y = 1 /\ size_z = 1
    /\ voxels = << >>
    /\ prev = << >>
    /\ nops = 0
    /\ file = << >>
    /\ ReaderIdle
    /\ naive = << >> /\ greedy = << >>
    /\ passes = << >> /\ shared = << >>
    /\ closest = 0 /\ line = << >>

CtlUnchanged ==
    UNCHANGED << gridVars, file, readVars, meshVars, passVars, closest, line >>

\* controller.should_continue() called before the loop is entered
CtlAskFirst ==
    /\ ctl.pc = "new"
    /\ ctl' = [ctl EXCEPT !.pc = "loop", !.first = should_continue(ctl)]
    /\ CtlUnchanged

\* line 31 of the Usage note: controller.record_iteration(score, evaluation)
CtlRecord ==
    /\ ctl.pc \in { "new", "loop" }
    /\ Len(ctl.iterations) < MaxRecorded
    /\ \E score \in ScoreArgs :
          ctl' = [record_iteration(ctl, score) EXCEPT !.pc = "judge"]
    /\ CtlUnchanged

\* lines 34-37 of the Usage note: should_continue(), break when it says no
CtlJudge ==
    /\ ctl.pc = "judge"
    /\ LET a == should_continue(ctl)
       IN  ctl' = [ctl EXCEPT !.answer = a, !.pc = IF a[1] THEN "loop" ELSE "ended"]
    /\ CtlUnchanged

NextCtl == CtlAskFirst \/ CtlRecord \/ CtlJudge

SpecCtl == InitCtl /\ [][NextCtl]_vars

\* C30: in the loop of record_iteration followed by should_continue, for every
\* sequence of scores and every success_threshold: should_continue called
\* before any iteration is recorded returns True; it has returned False when
\* MAX_ITERATIONS iterations are recorded at the latest, so that the loop never
\* records more than 5 iterations and ends with 1 to 5 of them; and the
\* iterations recorded are numbered 1..n in order.
IterationBound ==
    last[1] = "controller" =>
        LET n == Len(ctl.iterations)
        IN  /\ n <= MAX_ITERATIONS
            /\ \A i \in 1..n : ctl.iterations[i].iteration = i
            /\ ctl.first # << >> => ctl.first[1]
            /\ (ctl.pc = "loop" /\ n > 0) => (ctl.answer[1] /\ n < MAX_ITERATIONS)
            /\ ctl.pc = "ended" => (~ ctl.answer[1] /\ n \in 1..MAX_ITERATIONS)
            /\ (ctl.pc = "judge" /\ n = MAX_ITERATIONS) => ~ should_continue(ctl)[1]

\* the loop has ended on the fifth iteration for the count alone: the scores,
\* one of them nan, never reached a threshold nor stagnated
IterationBoundWitness ==
    /\ last[1] = "controller"
    /\ ctl.pc = "ended"
    /\ Len(ctl.iterations) = MAX_ITERATIONS
    /\ ctl.answer = << FALSE, "MAX_ITERATIONS" >>
    /\ ctl.first = << TRUE, "FIRST" >>
    /\ \E i \in 1..MAX_ITERATIONS : ctl.iterations[i].score = NaN

====
